---- MODULE Spec2Model ----
(***************************************************************************)
(* The tool-calling conversation loop of tooled-prompt: runToolLoop        *)
(* (src/src/executor.ts), the return store (createStore), the executor     *)
(* assembled by makeExecutor, and the three provider adapters' message     *)
(* formatting and response parsing.                                        *)
(*                                                                         *)
(* Text that the code parses or concatenates (tool-call argument strings,  *)
(* model content, tool results) is a sequence of tokens, so that           *)
(* JSON.parse, JSON.stringify and streamed accretion are computed and not  *)
(* assumed.  Messages shown to the caller (error messages, event texts)    *)
(* are TLA+ strings.                                                       *)
(***************************************************************************)
EXTENDS Integers, Sequences, FiniteSets, TLC

\* ------------------------------------------------------------------ bounds
\* Raw tool calls the model may request in one loop invocation.
MaxToolCalls == 2
\* Largest configured iteration cap tried.
MaxCap == 2
\* Fragments a streamed argument string is cut into.
MaxFragments == 2

\* ------------------------------------------------------- JavaScript values
Undefined == [type |-> "undefined", v |-> ""]
JSNull == [type |-> "null", v |-> ""]
Str(x) == [type |-> "string", v |-> x]
Num(x) == [type |-> "number", v |-> x]

\* ------------------------------------------------------------ text tokens
LBrace == [t |-> "{", k |-> "", v |-> Undefined]
RBrace == [t |-> "}", k |-> "", v |-> Undefined]
NullTok == [t |-> "null", k |-> "", v |-> Undefined]
Member(key, val) == [t |-> "member", k |-> key, v |-> val]
Text(x) == [t |-> "text", k |-> x, v |-> Undefined]

EmptyString == << >>

\* A parsed JSON value: an object with its members in text order, or null.
Obj(members) == [kind |-> "object", members |-> members]
NullValue == [kind |-> "null", members |-> << >>]

\* A parser that swallows the SyntaxError and falls back to {}.
JSONParseLenient(s) ==
  IF s = <<NullTok>>
  THEN [ok |-> TRUE, value |-> NullValue]
  ELSE IF /\ Len(s) >= 2
          /\ s[1] = LBrace
          /\ s[Len(s)] = RBrace
          /\ \A i \in 2..(Len(s) - 1) : s[i].t = "member"
       THEN [ok |-> TRUE, value |-> Obj(SubSeq(s, 2, Len(s) - 1))]
       ELSE [ok |-> TRUE, value |-> Obj(<< >>)]

\* JSON.parse: ok is FALSE where JSON.parse throws a SyntaxError.
JSONParse(s) ==
  IF s = <<NullTok>>
  THEN [ok |-> TRUE, value |-> NullValue]
  ELSE IF /\ Len(s) >= 2
          /\ s[1] = LBrace
          /\ s[Len(s)] = RBrace
          /\ \A i \in 2..(Len(s) - 1) : s[i].t = "member"
       THEN [ok |-> TRUE, value |-> Obj(SubSeq(s, 2, Len(s) - 1))]
       ELSE [ok |-> FALSE, value |-> NullValue]

\* JSON.stringify of an object: its members in insertion order.
JSONStringify(members) == <<LBrace>> \o members \o <<RBrace>>

\* obj[key] on a parsed object: the last member of that key, else undefined.
Get(members, key) ==
  LET hits == {i \in 1..Len(members) : members[i].k = key}
  IN IF hits = {} THEN Undefined
     ELSE members[CHOOSE i \in hits : \A j \in hits : j <= i].v

\* A text as the characters it consists of.
RenderValue(val) ==
  IF val.type = "string" THEN "\"" \o val.v \o "\""
  ELSE IF val.type = "number" THEN val.v
  ELSE val.type

RenderToken(tok) ==
  IF tok.t = "member" THEN "\"" \o tok.k \o "\":" \o RenderValue(tok.v)
  ELSE IF tok.t = "text" THEN tok.k
  ELSE tok.t

RECURSIVE Render(_)
Render(s) ==
  IF s = << >> THEN ""
  ELSE RenderToken(Head(s))
         \o (IF Len(s) > 1 /\ s[1].t = "member" /\ s[2].t = "member" THEN "," ELSE "")
         \o Render(Tail(s))

\* JSON.stringify(value, null, 2)
RECURSIVE PrettyMembers(_)
PrettyMembers(members) ==
  IF members = << >> THEN ""
  ELSE "\n  \"" \o Head(members).k \o "\": " \o RenderValue(Head(members).v)
         \o (IF Len(members) > 1 THEN "," ELSE "\n")
         \o PrettyMembers(Tail(members))

PrettyJSON(value) ==
  IF value.kind = "null" THEN "null" ELSE "{" \o PrettyMembers(value.members) \o "}"

SyntaxErrorMessage == "Unexpected token"
NullTypeErrorMessage == "Cannot read properties of null (reading 'message')"

\* ------------------------------------------------- schema (src/src/types.ts)
\* The flat string-map schema { value: '...', 'note?': '...' } after key cleaning.
SchemaFields ==
  << [cleanKey |-> "value", optional |-> FALSE],
     [cleanKey |-> "note", optional |-> TRUE] >>

Absent(val) == val = Undefined \/ val = JSNull

\* A null value counted as a value of the wrong type rather than as absent.
FieldFailsOnNull(members, f) ==
  LET val == Get(members, f.cleanKey)
  IN IF val = Undefined THEN ~f.optional ELSE val.type # "string"

FieldFails(members, f) ==
  LET val == Get(members, f.cleanKey)
  IN IF Absent(val) THEN ~f.optional ELSE val.type # "string"

FieldError(members, f) ==
  IF Absent(Get(members, f.cleanKey))
  THEN "Missing required field: \"" \o f.cleanKey \o "\""
  ELSE "Field \"" \o f.cleanKey \o "\" must be a string, got "
         \o Get(members, f.cleanKey).type

RECURSIVE CollectFields(_, _)
CollectFields(members, i) ==
  IF i > Len(SchemaFields) THEN << >>
  ELSE LET f == SchemaFields[i]
           val == Get(members, f.cleanKey)
       IN (IF Absent(val) THEN << >> ELSE <<Member(f.cleanKey, val)>>)
            \o CollectFields(members, i + 1)

\* createSimpleSchemaParser's returned parser: ok is FALSE where it throws.
SchemaParse(data) ==
  IF data.kind # "object"
  THEN [ok |-> FALSE, error |-> "Expected an object", value |-> << >>]
  ELSE LET bad == {i \in 1..Len(SchemaFields) : FieldFails(data.members, SchemaFields[i])}
       IN IF bad = {}
          THEN [ok |-> TRUE, error |-> "", value |-> CollectFields(data.members, 1)]
          ELSE LET first == CHOOSE i \in bad : \A j \in bad : i <= j
               IN [ok |-> FALSE,
                   error |-> FieldError(data.members, SchemaFields[first]),
                   value |-> << >>]

\* Object.keys(jsonSchema.properties) of simpleSchemaToJsonSchema.
SchemaPropKeys == [i \in 1..Len(SchemaFields) |-> SchemaFields[i].cleanKey]

\* ----------------------------------------------------- store (createStore)
EmptySlot == [filled |-> FALSE, value |-> << >>]

RECURSIVE StoreObject(_, _, _)
StoreObject(propKeys, args, i) ==
  IF i > Len(propKeys) THEN << >>
  ELSE (IF i <= Len(args) /\ args[i] # Undefined
        THEN <<Member(propKeys[i], args[i])>> ELSE << >>)
         \o StoreObject(propKeys, args, i + 1)

StoreAck == <<Text("Value stored successfully")>>

\* A slot that keeps the first value written to it.
StoreWriteOnce(slot, value) ==
  IF slot.filled THEN slot ELSE [filled |-> TRUE, value |-> value]

\* stored = { value: result }
StoreWrite(slot, value) == [filled |-> TRUE, value |-> value]

\* A store that keeps whatever object it is given.
StoreCallUnchecked(slot, args) ==
  [threw |-> FALSE, message |-> "",
   slot |-> StoreWrite(slot, StoreObject(SchemaPropKeys, args, 1))]

\* The store function fn(...args): what it returns or throws and the slot after.
StoreCall(slot, args) ==
  LET parsed == SchemaParse(Obj(StoreObject(SchemaPropKeys, args, 1)))
  IN IF parsed.ok
     THEN [threw |-> FALSE, message |-> "", slot |-> StoreWrite(slot, parsed.value)]
     ELSE [threw |-> TRUE, message |-> parsed.error, slot |-> slot]

\* store.get(): stored?.value; undefined while nothing is stored.
StoreGet(slot) == slot.value

\* ------------------------------------------------------------------ tools
\* A registered callable: its TOOL_SYMBOL metadata (name, declared parameter
\* order = Object.keys(parameters.properties)) and what kind of body it has.
AddTool == [name |-> "add", params |-> <<"a", "b", "c">>, body |-> "function"]
StoreTool(name) == [name |-> name, params |-> SchemaPropKeys, body |-> "store"]

ReturnStoreName == "return_value"
ExplicitStoreName == "store_value_1"
StoreName(m) == IF m = "return" THEN ReturnStoreName ELSE ExplicitStoreName

\* tools.find((t) => t[TOOL_SYMBOL].name === name): the first match, if any.
FindTool(ts, name) ==
  LET hits == {i \in 1..Len(ts) : ts[i].name = name}
  IN IF hits = {} THEN 0 ELSE CHOOSE i \in hits : \A j \in hits : i <= j

\* Arguments passed in the key order of the model's JSON: Object.values(input).
ArgsInKeyOrder(params, members) == [i \in 1..Len(members) |-> members[i].v]

\* paramNames.map((name) => input[name]) on a parsed object.
PositionalArgs(params, members) == [i \in 1..Len(params) |-> Get(members, params[i])]

\* What a plain callable may do when invoked: return a value or throw one.
ThrownError == [type |-> "Error", message |-> "Tool error!"]
ThrownNull == [type |-> "null", message |-> ""]
FunctionOutcomes ==
  { [threw |-> FALSE, value |-> Str("sum"), thrown |-> ThrownNull],
    [threw |-> TRUE, value |-> Undefined, thrown |-> ThrownError],
    [threw |-> TRUE, value |-> Undefined, thrown |-> ThrownNull] }

\* Canonical result string of a returned value (executor.ts 319-327).
Canonical(value) ==
  IF Absent(value) THEN <<Text("OK")>>
  ELSE IF value.type = "string" THEN <<Text(value.v)>>
  ELSE <<Text("JSON:" \o value.v)>>

\* JSON.stringify({ error }) as pushed for every failed call.
ErrorResult(message) == JSONStringify(<<Member("error", Str(message))>>)

IsErrorResult(r) ==
  /\ Len(r) = 3
  /\ r[1] = LBrace
  /\ r[2].t = "member" /\ r[2].k = "error" /\ r[2].v.type = "string"
  /\ r[3] = RBrace

\* ------------------------------------------ provider message formatting
Providers == {"openai", "anthropic", "ollama"}

NullContent == <<[t |-> "js-null", k |-> "", v |-> Undefined]>>

ParsedOrEmpty(arguments) ==
  IF JSONParse(arguments).ok THEN JSONParse(arguments).value ELSE Obj(<< >>)

FormatUserMessage(p, text) == [role |-> "user", content |-> text]

FormatAssistantMessage(p, text, calls) ==
  IF p = "openai"
  THEN [role |-> "assistant",
        content |-> IF text = EmptyString THEN NullContent ELSE text,
        tool_calls |-> [i \in 1..Len(calls) |->
                          [id |-> calls[i].id, name |-> calls[i].name,
                           arguments |-> calls[i].arguments]]]
  ELSE IF p = "anthropic"
  THEN [role |-> "assistant",
        content |->
          (IF text = EmptyString THEN << >> ELSE <<[type |-> "text", text |-> text]>>)
          \o [i \in 1..Len(calls) |->
                [type |-> "tool_use", id |-> calls[i].id, name |-> calls[i].name,
                 input |-> ParsedOrEmpty(calls[i].arguments)]]]
  ELSE [role |-> "assistant",
        content |-> text,
        tool_calls |-> [i \in 1..Len(calls) |->
                          [name |-> calls[i].name,
                           arguments |-> ParsedOrEmpty(calls[i].arguments)]]]

FormatToolResults(p, results) ==
  IF p = "openai"
  THEN [i \in 1..Len(results) |->
          [role |-> "tool", tool_call_id |-> results[i].id, content |-> results[i].result]]
  ELSE IF p = "anthropic"
  THEN << [role |-> "user",
           content |-> [i \in 1..Len(results) |->
                          [type |-> "tool_result", tool_use_id |-> results[i].id,
                           content |-> results[i].result]]] >>
  ELSE [i \in 1..Len(results) |-> [role |-> "tool", content |-> results[i].result]]

\* ------------------------------------------------ what the model may answer
\* Shapes of tool call a parsed response may carry.
CallKinds ==
  { "add", "add_badjson", "unknown",
    "store_x", "store_y", "store_invalid", "no_id", "no_name" }

\* The Ollama parser assigns every call an id itself (ollama.ts 188, 218).
KindsOf(p) == IF p = "ollama" THEN CallKinds \ {"no_id"} ELSE CallKinds

KindName(kind, m) ==
  IF kind \in {"add", "add_badjson", "no_id"} THEN "add"
  ELSE IF kind = "unknown" THEN "lookup"
  ELSE IF kind = "no_name" THEN ""
  ELSE StoreName(m)

KindArguments(kind) ==
  IF kind = "add"
  THEN JSONStringify(<<Member("c", Num("3")), Member("z", Num("9")), Member("a", Num("1"))>>)
  ELSE IF kind = "add_badjson" THEN <<Text("not json")>>
  ELSE IF kind = "store_x"
  THEN JSONStringify(<<Member("note", Str("n")), Member("value", Str("x"))>>)
  ELSE IF kind = "store_y" THEN JSONStringify(<<Member("value", Str("y"))>>)
  ELSE IF kind = "store_invalid" THEN JSONStringify(<<Member("note", Str("n"))>>)
  ELSE JSONStringify(<< >>)

RawCall(kind, pos, p, m) ==
  [id |-> IF p = "ollama" THEN "ollama_" \o ToString(pos - 1)
          ELSE IF kind = "no_id" THEN ""
          ELSE "call_" \o ToString(pos),
   name |-> KindName(kind, m),
   arguments |-> KindArguments(kind)]

TextContent == <<Text("Done")>>
ValidJSONContent ==
  JSONStringify(<<Member("value", Str("x")), Member("extra", Str("e"))>>)
InvalidJSONContent == JSONStringify(<<Member("value", Num("1"))>>)
Contents == {EmptyString, TextContent, ValidJSONContent, InvalidJSONContent}
ToolTurnContents == {EmptyString}

PromptText == <<Text("prompt")>>

\* ------------------------------------------------------------------ state
VARIABLES
  pc,            \* "idle" | "fetch" (a request is in flight) | "dispatch" | "resolved" | "rejected"
  provider,      \* config.provider
  maxIterations, \* config.maxIterations; Unlimited when undefined
  mode,          \* "return": the template holds prompt.return; "store": an explicit store()
  hasSchema,     \* a schema was passed to the executor
  tools,         \* the callables handed to runToolLoop
  messages,      \* the history of runToolLoop
  iterations,    \* the loop counter
  requestsSent,  \* fetch calls made by this loop invocation
  content,       \* content of the response being processed
  toolCalls,     \* complete tool calls of the response being processed
  idx,           \* position in toolCalls of the call dispatched next
  toolResults,   \* ToolResultInfo list of the batch
  slot,          \* the store's private slot
  events,        \* events emitted, in order
  invocations,   \* callables invoked, in order, with their positional arguments
  result,        \* the value the loop resolved with
  error,         \* the message the loop rejected with
  callsUsed,     \* raw tool calls the model requested so far
  rawToolCalls,  \* the tool calls parseResponse returned for the last response
  http,          \* the fetch of the current iteration: abort signal, status, failure
  logical,       \* a response's logical content, before it is put on the wire
  streamed,      \* parseResponse's result for its streamed form
  single,        \* parseResponse's result for its single-shot JSON form
  stage,         \* of an instance: "idle" | "loop" (an execution runs) | "done"
  configured,    \* tools of the instance config and of its system prompt
  handed,        \* allTools: the callables an execution hands to runToolLoop
  prevTools,     \* the tools buildNext captured from the last execution
  called,        \* the callable the last model call invoked
  executions,    \* executions started on this instance
  outcome,       \* what one tool invocation did: the value returned or the error thrown
  limit,         \* config.maxToolResultLength
  recorded,      \* the result recorded for that invocation
  at,            \* where runToolLoop is suspended: "idle" | "fetch" | "parse" | "start" | "await" | "drain" | "done"
  round,         \* requests this loop has sent
  inflight,      \* requests sent whose response has not been read to its end
  batch,         \* complete tool calls of the response parsed last
  current,          \* position in the batch of the call the loop is at
  active,        \* calls whose function was called and whose result is not settled
  settled,       \* calls of the batch whose result is recorded
  chunksLeft,    \* chunks of the response body still to arrive
  itemsLeft,     \* items the iterable a tool returned still yields
  wire,          \* the parsed events of a response stream, in arrival order
  consumed,      \* events of the stream parseResponse has handled
  accum,         \* parseResponse's accumulators: content, toolCalls, currentToolIndex
  emitted,       \* the events parseResponse emitted to the observers
  parsed,        \* whether parseResponse has returned its accumulators
  link,          \* executions started in the chain: the first prompt and its continuations
  phase,         \* "idle" | "request" (a request of the running loop is in flight) | "returned"
  sysPrompt,     \* config.systemPrompt: a string, or NoSystem when undefined
  priorMessages, \* the messages the previous execution returned, as next captured them
  priorTools,    \* allTools of the previous execution, as next captured them
  convo,         \* the messages array of the running loop
  loopTools,     \* the tools handed to the running loop
  loopSchemaGiven,\* whether the running loop was handed a schema
  request,       \* the request built last
  requestNo,     \* requests the running loop has built
  instances,     \* per instance of createTooledPrompt: its config, its running execution, its tools
  anonymousCounter,\* the module's counter for naming anonymous functions
  data,          \* the value handed to the flat-schema parser
  validated,     \* what the parser did with it
  labels,        \* inThinking and hasContent of installDefaultHandlers
  switches,      \* what isSilent() and showThinking() return now
  stdout,        \* the events emitted and, after each, what its handler wrote
  arrays,        \* the message arrays in memory, by reference
  runs,          \* the executions started from one next: the array each loop pushes to
  sse,           \* parseSSEStream on one byte stream: what is left to read, its buffer, what it yielded
  ndjson         \* Ollama's streaming parseResponse on one body: what is left to read, its buffer, what it accumulated

vars ==
  << pc, provider, maxIterations, mode, hasSchema, tools, messages, iterations,
     requestsSent, content, toolCalls, idx, toolResults, slot, events, invocations,
     result, error, callsUsed, http, logical, streamed, single,
     stage, configured, handed, prevTools, called, executions,
     outcome, limit, recorded, rawToolCalls,
     at, round, inflight, batch, current, active, settled, chunksLeft, itemsLeft,
     wire, consumed, accum, emitted, parsed,
     link, phase, sysPrompt, priorMessages, priorTools, convo, loopTools, loopSchemaGiven, request, requestNo,
     instances, anonymousCounter,
     data, validated,
     labels, switches, stdout,
     arrays, runs,
     sse,
     ndjson >>

parseVars == << logical, streamed, single >>
assemblyVars == << stage, configured, handed, prevTools, called, executions >>
scheduleVars == << at, round, inflight, batch, current, active, settled, chunksLeft, itemsLeft >>
streamVars == << wire, consumed, accum, emitted, parsed >>
chainVars == << link, phase, sysPrompt, priorMessages, priorTools, convo, loopTools, loopSchemaGiven, request, requestNo >>
instanceVars == << instances, anonymousCounter >>
schemaVars == << data, validated >>
handlerVars == << labels, switches, stdout >>
replayVars == << arrays, runs >>
sseVars == << sse >>
ndjsonVars == << ndjson >>
recordVars == << outcome, limit, recorded >>
loopVars ==
  << pc, provider, maxIterations, mode, hasSchema, tools, messages, iterations,
     requestsSent, content, toolCalls, idx, toolResults, slot, events, invocations,
     result, error, callsUsed, http, rawToolCalls >>

\* maxIterations: undefined (DEFAULTS).
Unlimited == 0

Modes == {"return", "store"}

NoResult == [source |-> "", value |-> << >>]

NotParsed == [done |-> FALSE, failure |-> "", content |-> EmptyString, toolCalls |-> << >>]
NoLogical == [usable |-> TRUE, text |-> << >>, calls |-> << >>]

\* config.timeout in ms (the default).
Timeout == 60000

NoFetch == [signal |-> "none", status |-> 0, failure |-> ""]
\* fetch is in flight with the abort timer set.
InFlight == [signal |-> "armed", status |-> 0, failure |-> ""]

LoopInit ==
  /\ pc = "idle"
  /\ provider \in Providers
  /\ maxIterations \in {Unlimited} \cup (1..MaxCap)
  /\ mode = "store"
  /\ hasSchema = FALSE
  /\ tools = << >>
  /\ messages = << >>
  /\ iterations = 0
  /\ requestsSent = 0
  /\ content = EmptyString
  /\ toolCalls = << >>
  /\ idx = 0
  /\ toolResults = << >>
  /\ slot = EmptySlot
  /\ events = << >>
  /\ invocations = << >>
  /\ result = NoResult
  /\ error = ""
  /\ callsUsed = 0
  /\ rawToolCalls = << >>
  /\ http = NoFetch

NoCall == [name |-> "", fn |-> 0]
NoConfig == [instance |-> << >>, system |-> << >>]

NoAssembly ==
  /\ stage = "idle"
  /\ configured = NoConfig
  /\ handed = << >>
  /\ prevTools = << >>
  /\ called = NoCall
  /\ executions = 0

\* maxToolResultLength: undefined (DEFAULTS).
Unset == -1

\* A string measured by the code is the sequence of its characters.
NoString == [type |-> "none", chars |-> << >>]
NotRecorded == [done |-> FALSE, resultStr |-> NoString, result |-> NoString]

NoSchedule ==
  /\ at = "idle"
  /\ round = 0
  /\ inflight = 0
  /\ batch = 0
  /\ current = 0
  /\ active = {}
  /\ settled = {}
  /\ chunksLeft = 0
  /\ itemsLeft = 0

NoStream ==
  /\ wire = << >>
  /\ consumed = 0
  /\ accum = [content |-> << >>, toolCalls |-> << >>, currentToolIndex |-> -1]
  /\ emitted = << >>
  /\ parsed = FALSE

NoChain ==
  /\ link = 0
  /\ phase = "idle"
  /\ sysPrompt = ""
  /\ priorMessages = << >>
  /\ priorTools = << >>
  /\ convo = << >>
  /\ loopTools = << >>
  /\ loopSchemaGiven = FALSE
  /\ request = [messages |-> << >>, system |-> "", tool_choice |-> "", tools |-> << >>]
  /\ requestNo = 0

NoInstances ==
  /\ instances = << >>
  /\ anonymousCounter = 0

NoSchemaInput ==
  /\ data = [kind |-> "none", members |-> << >>]
  /\ validated = [done |-> FALSE, ok |-> FALSE, error |-> "", value |-> << >>]

NoHandlers ==
  /\ labels = [inThinking |-> FALSE, hasContent |-> FALSE]
  /\ switches = [silent |-> FALSE, showThinking |-> FALSE]
  /\ stdout = << >>

NoReplay ==
  /\ arrays = << >>
  /\ runs = << >>

NoSSE ==
  /\ sse = [source |-> 0]

NoNDJSON ==
  /\ ndjson = [source |-> 0]

NoRecording ==
  /\ outcome = [kind |-> "none"]
  /\ limit = Unset
  /\ recorded = NotRecorded

Init ==
  /\ LoopInit
  /\ NoAssembly
  /\ NoRecording
  /\ NoNDJSON
  /\ NoSSE
  /\ NoReplay
  /\ NoHandlers
  /\ NoSchemaInput
  /\ NoInstances
  /\ NoChain
  /\ NoStream
  /\ NoSchedule
  /\ logical = NoLogical
  /\ streamed = NotParsed
  /\ single = NotParsed

\* The schema and the return store that makeExecutor passes to runToolLoop.
LoopSchema == hasSchema /\ mode # "return"
ReturnStoreActive == mode = "return"

MaxIterationsMessage ==
  "Max iterations (" \o ToString(maxIterations) \o ") reached without completion"

\* ------------------------------------------------------------- makeExecutor
\* execute(schema?) up to the first fetch of runToolLoop.
Execute(m, s) ==
  /\ pc = "idle"
  /\ mode' = m
  /\ hasSchema' = s
  /\ UNCHANGED << provider, maxIterations, iterations, content, toolCalls, idx,
                  toolResults, invocations, result, callsUsed, parseVars, assemblyVars, recordVars, ndjsonVars, sseVars, replayVars, handlerVars, schemaVars, instanceVars, chainVars, streamVars, scheduleVars, rawToolCalls >>
  /\ IF m = "return" /\ ~s
     THEN /\ pc' = "rejected"
          /\ error' = "prompt.return requires a schema"
          /\ UNCHANGED << tools, messages, requestsSent, slot, events, http >>
     ELSE /\ http' = InFlight
          /\ tools' = <<AddTool, StoreTool(StoreName(m))>>
          /\ slot' = EmptySlot
          /\ events' = Append(events, [ev |-> "start", name |-> "", text |-> ""])
          /\ messages' = <<FormatUserMessage(provider, PromptText)>>
          /\ requestsSent' = 1
          /\ pc' = "fetch"
          /\ error' = ""

\* -------------------------------------------------------------- runToolLoop
Complete(tc) == tc.id # "" /\ tc.name # ""

\* Every parsed call is dispatched.
FilterNothing(raw) == raw

\* rawToolCalls.filter((tc) => tc.id && tc.name)
FilterComplete(raw) == SelectSeq(raw, Complete)

Event(ev, name, text) == [ev |-> ev, name |-> name, text |-> text]

\* A terminal turn that returns the parsed JSON without validating it.
TerminalUnvalidated(text) ==
  /\ messages' = Append(messages, FormatAssistantMessage(provider, text, << >>))
  /\ content' = text
  /\ toolCalls' = << >>
  /\ UNCHANGED << iterations, requestsSent, idx, toolResults, slot, events, invocations >>
  /\ IF LoopSchema /\ ~JSONParse(text).ok
     THEN /\ pc' = "rejected"
          /\ error' = "Failed to parse JSON response: " \o SyntaxErrorMessage
                        \o "\n\nRaw content:\n" \o Render(text)
          /\ UNCHANGED result
     ELSE /\ pc' = "resolved"
          /\ result' = [source |-> "content",
                        value |-> IF LoopSchema THEN JSONParse(text).value.members
                                  ELSE text]
          /\ UNCHANGED error

\* The terminal turn (executor.ts 247-273).
Terminal(text) ==
  /\ messages' = Append(messages, FormatAssistantMessage(provider, text, << >>))
  /\ content' = text
  /\ toolCalls' = << >>
  /\ UNCHANGED << iterations, requestsSent, idx, toolResults, slot, events, invocations >>
  /\ IF LoopSchema
     THEN IF ~JSONParse(text).ok
          THEN /\ pc' = "rejected"
               /\ error' = "Failed to parse JSON response: " \o SyntaxErrorMessage
                             \o "\n\nRaw content:\n" \o Render(text)
               /\ UNCHANGED result
          ELSE IF ~SchemaParse(JSONParse(text).value).ok
          THEN /\ pc' = "rejected"
               /\ error' = "Schema validation failed: "
                             \o SchemaParse(JSONParse(text).value).error
                             \o "\n\nParsed JSON:\n" \o PrettyJSON(JSONParse(text).value)
               /\ UNCHANGED result
          ELSE /\ pc' = "resolved"
               /\ result' = [source |-> "schema",
                             value |-> SchemaParse(JSONParse(text).value).value]
               /\ UNCHANGED error
     ELSE /\ pc' = "resolved"
          /\ result' = [source |-> "content", value |-> text]
          /\ UNCHANGED error

\* A response arrives and is parsed into { content, toolCalls }.
Respond(text, kinds) ==
  /\ pc = "fetch"
  /\ http.signal = "armed"
  /\ http' = [signal |-> "cleared", status |-> 200, failure |-> ""]
  /\ callsUsed + Len(kinds) <= MaxToolCalls
  /\ callsUsed' = callsUsed + Len(kinds)
  /\ UNCHANGED << provider, maxIterations, mode, hasSchema, tools, parseVars,
                  assemblyVars, recordVars, ndjsonVars, sseVars, replayVars, handlerVars, schemaVars, instanceVars, chainVars, streamVars, scheduleVars >>
  /\ LET raw == [i \in 1..Len(kinds) |-> RawCall(kinds[i], i, provider, mode)]
         calls == FilterComplete(raw)
     IN /\ rawToolCalls' = raw
        /\ IF Len(calls) = 0
           THEN Terminal(text)
           ELSE /\ text \in ToolTurnContents
                /\ pc' = "dispatch"
                /\ content' = text
                /\ toolCalls' = calls
                /\ idx' = 1
                /\ toolResults' = << >>
                /\ UNCHANGED << messages, iterations, requestsSent, slot, events,
                                invocations, result, error >>

\* The loop after the call at idx has produced newResults: the next call of the
\* batch, or the end of the batch (executor.ts 355-369 and the loop condition).
CapReached(n) == maxIterations # Unlimited /\ n >= maxIterations

StoreFilled(s) == ReturnStoreActive /\ s.filled

\* A loop that polls the slot after every call instead of after the batch.
AfterCallPollsEachCall(newResults, newSlot) ==
  /\ toolResults' = newResults
  /\ slot' = newSlot
  /\ UNCHANGED << content, toolCalls >>
  /\ IF StoreFilled(newSlot)
     THEN /\ idx' = idx
          /\ messages' = (Append(messages,
                                 FormatAssistantMessage(provider, content, toolCalls))
                            \o FormatToolResults(provider, newResults))
          /\ pc' = "resolved"
          /\ result' = [source |-> "store", value |-> StoreGet(newSlot)]
          /\ UNCHANGED << iterations, requestsSent, error, http >>
     ELSE IF idx < Len(toolCalls)
     THEN /\ idx' = idx + 1
          /\ pc' = "dispatch"
          /\ UNCHANGED << messages, iterations, requestsSent, result, error, http >>
     ELSE /\ idx' = idx
          /\ messages' = (Append(messages,
                                 FormatAssistantMessage(provider, content, toolCalls))
                            \o FormatToolResults(provider, newResults))
          /\ iterations' = iterations + 1
          /\ UNCHANGED result
          /\ IF CapReached(iterations + 1)
             THEN /\ pc' = "rejected"
                  /\ error' = MaxIterationsMessage
                  /\ UNCHANGED << requestsSent, http >>
             ELSE /\ pc' = "fetch"
                  /\ requestsSent' = requestsSent + 1
                  /\ http' = InFlight
                  /\ UNCHANGED error

AfterCall(newResults, newSlot) ==
  /\ toolResults' = newResults
  /\ slot' = newSlot
  /\ UNCHANGED << content, toolCalls >>
  /\ IF idx < Len(toolCalls)
     THEN /\ idx' = idx + 1
          /\ pc' = "dispatch"
          /\ UNCHANGED << messages, iterations, requestsSent, result, error, http >>
     ELSE /\ idx' = idx
          /\ messages' = (Append(messages,
                                 FormatAssistantMessage(provider, content, toolCalls))
                            \o FormatToolResults(provider, newResults))
          /\ IF StoreFilled(newSlot)
             THEN /\ pc' = "resolved"
                  /\ result' = [source |-> "store", value |-> StoreGet(newSlot)]
                  /\ UNCHANGED << iterations, requestsSent, error, http >>
             ELSE /\ iterations' = iterations + 1
                  /\ UNCHANGED result
                  /\ IF CapReached(iterations + 1)
                     THEN /\ pc' = "rejected"
                          /\ error' = MaxIterationsMessage
                          /\ UNCHANGED << requestsSent, http >>
                     ELSE /\ pc' = "fetch"
                          /\ requestsSent' = requestsSent + 1
                          /\ http' = InFlight
                          /\ UNCHANGED error

ResultInfo(tc, text) == [id |-> tc.id, name |-> tc.name, result |-> text]

Dispatching ==
  /\ pc = "dispatch"
  /\ UNCHANGED << provider, maxIterations, mode, hasSchema, tools, callsUsed, parseVars, assemblyVars, recordVars, ndjsonVars, sseVars, replayVars, handlerVars, schemaVars, instanceVars, chainVars, streamVars, scheduleVars, rawToolCalls >>

\* An unknown tool skipped without a result being pushed for it.
DispatchUnknownSilent ==
  /\ Dispatching
  /\ FindTool(tools, toolCalls[idx].name) = 0
  /\ UNCHANGED << events, invocations >>
  /\ AfterCall(toolResults, slot)

\* An unknown tool raised to the caller.
DispatchUnknownThrows ==
  /\ Dispatching
  /\ FindTool(tools, toolCalls[idx].name) = 0
  /\ pc' = "rejected"
  /\ error' = "Unknown tool: " \o toolCalls[idx].name
  /\ UNCHANGED << messages, iterations, requestsSent, content, toolCalls, idx,
                  toolResults, slot, events, invocations, result, http >>

\* The requested tool is not registered (executor.ts 281-291).
DispatchUnknown ==
  /\ Dispatching
  /\ LET tc == toolCalls[idx]
     IN /\ FindTool(tools, tc.name) = 0
        /\ UNCHANGED << events, invocations >>
        /\ AfterCall(Append(toolResults,
                            ResultInfo(tc, ErrorResult("Unknown tool: " \o tc.name))),
                     slot)

\* The argument string does not parse (executor.ts 296-307).
DispatchBadArguments ==
  /\ Dispatching
  /\ LET tc == toolCalls[idx]
         message == "Invalid JSON arguments: " \o SyntaxErrorMessage
     IN /\ FindTool(tools, tc.name) # 0
        /\ ~JSONParse(tc.arguments).ok
        /\ events' = Append(events, Event("tool_error", tc.name, message))
        /\ UNCHANGED invocations
        /\ AfterCall(Append(toolResults, ResultInfo(tc, ErrorResult(message))), slot)

Invocable(tc, body) ==
  LET ti == FindTool(tools, tc.name)
  IN /\ ti # 0
     /\ JSONParse(tc.arguments).ok
     /\ JSONParse(tc.arguments).value.kind = "object" \/ Len(tools[ti].params) = 0
     /\ tools[ti].body = body

CallArgs(tc) ==
  PositionalArgs(tools[FindTool(tools, tc.name)].params,
                 JSONParse(tc.arguments).value.members)

Invocation(tc) ==
  [name |-> tc.name, tool |-> FindTool(tools, tc.name), call |-> tc, args |-> CallArgs(tc)]

\* error.message in the catch block (executor.ts 345-346): reading it from a
\* thrown null or undefined raises a TypeError that leaves the loop.
CatchAborts(thrown) == thrown.type = "null"

\* A plain callable is invoked and returns or throws (executor.ts 312-352).
DispatchFunction(o) ==
  /\ Dispatching
  /\ LET tc == toolCalls[idx]
     IN /\ Invocable(tc, "function")
        /\ invocations' = Append(invocations, Invocation(tc))
        /\ IF ~o.threw
           THEN /\ events' = events \o << Event("tool_call", tc.name, ""),
                                          Event("tool_result", tc.name, "") >>
                /\ AfterCall(Append(toolResults, ResultInfo(tc, Canonical(o.value))), slot)
           ELSE IF CatchAborts(o.thrown)
           THEN /\ events' = Append(events, Event("tool_call", tc.name, ""))
                /\ pc' = "rejected"
                /\ error' = "TypeError: " \o NullTypeErrorMessage
                /\ UNCHANGED << messages, iterations, requestsSent, content, toolCalls,
                                idx, toolResults, slot, result, http >>
           ELSE /\ events' = events \o << Event("tool_call", tc.name, ""),
                                          Event("tool_error", tc.name, o.thrown.message) >>
                /\ AfterCall(Append(toolResults,
                                    ResultInfo(tc, ErrorResult(o.thrown.message))),
                             slot)

\* The store is invoked: it validates and stores, or throws (createStore).
DispatchStore ==
  /\ Dispatching
  /\ LET tc == toolCalls[idx]
         r == StoreCall(slot, CallArgs(tc))
     IN /\ Invocable(tc, "store")
        /\ invocations' = Append(invocations, Invocation(tc))
        /\ IF ~r.threw
           THEN /\ events' = events \o << Event("tool_call", tc.name, ""),
                                          Event("tool_result", tc.name, "") >>
                /\ AfterCall(Append(toolResults, ResultInfo(tc, StoreAck)), r.slot)
           ELSE /\ events' = events \o << Event("tool_call", tc.name, ""),
                                          Event("tool_error", tc.name, r.message) >>
                /\ AfterCall(Append(toolResults, ResultInfo(tc, ErrorResult(r.message))),
                             r.slot)

\* ------------------------------------------- the HTTP call (executor.ts 211-235)
AbortError == [name |-> "AbortError", message |-> "The operation was aborted."]
NetworkError == [name |-> "TypeError", message |-> "fetch failed"]

TimeoutMessage == "Request timeout after " \o ToString(Timeout) \o "ms"

\* Every fetch failure reported as a timeout.
FetchErrorAlwaysTimeout(err) == TimeoutMessage

\* The catch around fetch: an AbortError becomes the timeout error, anything
\* else is rethrown as it is.
FetchErrorMessage(err) ==
  IF err.name = "AbortError" THEN TimeoutMessage ELSE err.message

\* What fetch rejects with: the AbortError once the signal is aborted, a
\* network error otherwise.
FetchRejection(signal) == IF signal = "aborted" THEN AbortError ELSE NetworkError

Fetching ==
  /\ pc = "fetch"
  /\ UNCHANGED << provider, maxIterations, mode, hasSchema, tools, messages, iterations,
                  requestsSent, content, toolCalls, idx, toolResults, slot, events,
                  invocations, result, callsUsed, parseVars, assemblyVars, recordVars, ndjsonVars, sseVars, replayVars, handlerVars, schemaVars, instanceVars, chainVars, streamVars, scheduleVars, rawToolCalls >>

\* The timer set for config.timeout fires while fetch is pending: controller.abort().
TimerFires ==
  /\ Fetching
  /\ http.signal = "armed"
  /\ http' = [http EXCEPT !.signal = "aborted"]
  /\ UNCHANGED << pc, error >>

\* fetch rejects; the catch clears the timer and throws.
FetchRejects ==
  /\ Fetching
  /\ http.signal \in {"armed", "aborted"}
  /\ LET err == FetchRejection(http.signal)
     IN /\ http' = [signal |-> IF http.signal = "aborted" THEN "aborted" ELSE "cleared",
                    status |-> 0, failure |-> err.name]
        /\ pc' = "rejected"
        /\ error' = FetchErrorMessage(err)

HttpStatuses == {429, 500}
StatusText(status) == IF status = 429 THEN "Too Many Requests" ELSE "Internal Server Error"

HttpErrorMessage(status, text) ==
  "LLM request failed (" \o ToString(status) \o "): " \o text

\* A non-ok response answered by sending the request again.
HttpErrorRetries(status) ==
  /\ pc = "fetch"
  /\ http.signal = "armed"
  /\ requestsSent < MaxToolCalls + 2
  /\ requestsSent' = requestsSent + 1
  /\ http' = [signal |-> "armed", status |-> status, failure |-> ""]
  /\ UNCHANGED << pc, error, provider, maxIterations, mode, hasSchema, tools, messages,
                  iterations, content, toolCalls, idx, toolResults, slot, events,
                  invocations, result, callsUsed, parseVars, assemblyVars, recordVars, ndjsonVars, sseVars, replayVars, handlerVars, schemaVars, instanceVars, chainVars, streamVars, scheduleVars, rawToolCalls >>

\* A response with !response.ok arrives: its body text is read and thrown.
HttpError(status) ==
  /\ Fetching
  /\ http.signal = "armed"
  /\ http' = [signal |-> "cleared", status |-> status, failure |-> ""]
  /\ pc' = "rejected"
  /\ error' = HttpErrorMessage(status, StatusText(status))

BatchesOf(p) == UNION {[1..n -> KindsOf(p)] : n \in 0..MaxToolCalls}

Next ==
  \/ \E m \in Modes, s \in BOOLEAN : Execute(m, s)
  \/ \E text \in Contents, kinds \in BatchesOf(provider) : Respond(text, kinds)
  \/ DispatchUnknown
  \/ DispatchBadArguments
  \/ \E o \in FunctionOutcomes : DispatchFunction(o)
  \/ DispatchStore
  \/ TimerFires
  \/ FetchRejects
  \/ \E status \in HttpStatuses : HttpError(status)

Spec == Init /\ [][Next]_vars

\* ------------------------------------------------ provider response parsing
\* Tool calls a parsed response may hold.
MaxParsedCalls == 2

RECURSIVE Flatten(_)
Flatten(seqs) == IF seqs = << >> THEN << >> ELSE Head(seqs) \o Flatten(Tail(seqs))

\* A text cut into f consecutive fragments (some may be empty).
Split(s, f) ==
  [j \in 1..f |-> SubSeq(s, ((j - 1) * Len(s)) \div f + 1, (j * Len(s)) \div f)]

\* What a response says, before a provider puts it on the wire.
TextChunks == { << >>, << <<Text("Hello")>> >>, << <<Text("Hello")>>, <<Text(" World")>> >> }
EmptyInput == << >>
CallInputs == { EmptyInput, <<Member("a", Num("1")), Member("b", Num("2"))>> }
LogicalCalls == [name : {"add"}, input : CallInputs]
\* A response that holds no choice, no content and no message at all.
VoidResponse == [usable |-> FALSE, text |-> << >>, calls |-> << >>]
LogicalResponses ==
  [usable : {TRUE}, text : TextChunks,
   calls : UNION {[1..n -> LogicalCalls] : n \in 0..MaxParsedCalls}]
  \cup {VoidResponse}
NoResponseMessage == "No response from LLM"
WireId(i) == "call_" \o ToString(i)

\* ---- OpenAI: SSE deltas, arguments accreted per tool-call index
OpenAIDelta(text, calls) == [has_delta |-> TRUE, content |-> text, tool_calls |-> calls]
\* A chunk without choices[0].delta.
OpenAINoDelta == [has_delta |-> FALSE, content |-> EmptyString, tool_calls |-> << >>]

OpenAICallFrames(i, call, f) ==
  << OpenAIDelta(EmptyString, <<[index |-> i - 1, id |-> WireId(i), name |-> call.name,
                                 arguments |-> EmptyString]>>) >>
  \o [j \in 1..f |->
        OpenAIDelta(EmptyString, <<[index |-> i - 1, id |-> "", name |-> "",
                                    arguments |-> Split(JSONStringify(call.input), f)[j]]>>)]

OpenAIStream(l, f) ==
  IF ~l.usable THEN << OpenAINoDelta >> ELSE
  [j \in 1..Len(l.text) |-> OpenAIDelta(l.text[j], << >>)]
  \o Flatten([i \in 1..Len(l.calls) |-> OpenAICallFrames(i, l.calls[i], f)])

OpenAIMessage(l) ==
  [content |-> IF Flatten(l.text) = EmptyString THEN NullContent ELSE Flatten(l.text),
   tool_calls |-> [i \in 1..Len(l.calls) |->
                     [id |-> WireId(i), name |-> l.calls[i].name,
                      arguments |-> JSONStringify(l.calls[i].input)]]]

OpenAIBody(l) == [choices |-> IF l.usable THEN << OpenAIMessage(l) >> ELSE << >>]

RECURSIVE OpenAIAccrete(_, _, _)
OpenAIAccrete(calls, tcs, i) ==
  IF i > Len(tcs) THEN calls
  ELSE LET tc == tcs[i]
           pos == tc.index + 1
           created == IF pos <= Len(calls) THEN calls
                      ELSE Append(calls, [id |-> tc.id, name |-> tc.name,
                                          arguments |-> EmptyString])
           old == created[pos]
           new == [id |-> IF tc.id # "" THEN tc.id ELSE old.id,
                   name |-> IF tc.name # "" THEN tc.name ELSE old.name,
                   arguments |-> old.arguments \o tc.arguments]
       IN OpenAIAccrete([created EXCEPT ![pos] = new], tcs, i + 1)

RECURSIVE OpenAIParseStream(_, _, _)
OpenAIParseStream(frames, i, acc) ==
  IF i > Len(frames) THEN acc
  ELSE IF ~frames[i].has_delta THEN OpenAIParseStream(frames, i + 1, acc)
  ELSE OpenAIParseStream(frames, i + 1,
         [acc EXCEPT !.content = @ \o frames[i].content,
                     !.toolCalls = OpenAIAccrete(@, frames[i].tool_calls, 1)])

OpenAIParseBody(body) ==
  IF body.choices = << >>
  THEN [failure |-> NoResponseMessage, content |-> EmptyString, toolCalls |-> << >>]
  ELSE LET message == body.choices[1]
       IN [failure |-> "",
           content |-> IF message.content = NullContent THEN EmptyString
                       ELSE message.content,
           toolCalls |-> [i \in 1..Len(message.tool_calls) |->
                            [id |-> message.tool_calls[i].id,
                             name |-> message.tool_calls[i].name,
                             arguments |-> message.tool_calls[i].arguments]]]

\* ---- Anthropic: SSE content blocks, input streamed as partial JSON text
AnthropicFrame(type, blockType, id, name, deltaType, text) ==
  [type |-> type, block_type |-> blockType, id |-> id, name |-> name,
   delta_type |-> deltaType, text |-> text]

BlockStop == AnthropicFrame("content_block_stop", "", "", "", "", EmptyString)
MessageStop == AnthropicFrame("message_stop", "", "", "", "", EmptyString)

AnthropicTextFrames(chunks) ==
  IF chunks = << >> THEN << >>
  ELSE << AnthropicFrame("content_block_start", "text", "", "", "", EmptyString) >>
       \o [j \in 1..Len(chunks) |->
             AnthropicFrame("content_block_delta", "", "", "", "text_delta", chunks[j])]
       \o << BlockStop >>

\* The partial JSON an input is streamed as: the block starts with input {},
\* and an input without members adds no text to it.
PartialJSON(input) == IF input = EmptyInput THEN EmptyString ELSE JSONStringify(input)

AnthropicCallFrames(i, call, f) ==
  << AnthropicFrame("content_block_start", "tool_use", WireId(i), call.name, "", EmptyString) >>
  \o [j \in 1..f |->
        AnthropicFrame("content_block_delta", "", "", "", "input_json_delta",
                       Split(PartialJSON(call.input), f)[j])]
  \o << BlockStop >>

AnthropicStream(l, f) ==
  IF ~l.usable THEN << MessageStop >> ELSE
  AnthropicTextFrames(l.text)
  \o Flatten([i \in 1..Len(l.calls) |-> AnthropicCallFrames(i, l.calls[i], f)])
  \o << MessageStop >>

AnthropicBlocks(l) ==
  (IF l.text = << >> THEN << >>
   ELSE << [type |-> "text", text |-> Flatten(l.text), id |-> "", name |-> "",
            input |-> Obj(<< >>)] >>)
  \o [i \in 1..Len(l.calls) |->
        [type |-> "tool_use", text |-> EmptyString, id |-> WireId(i),
         name |-> l.calls[i].name, input |-> Obj(l.calls[i].input)]]

AnthropicBody(l) ==
  [has_content |-> l.usable, content |-> IF l.usable THEN AnthropicBlocks(l) ELSE << >>]

AnthropicStep(acc, fr) ==
  IF fr.type = "content_block_start"
  THEN IF fr.block_type = "tool_use"
       THEN [acc EXCEPT !.current = Len(acc.toolCalls) + 1,
                        !.toolCalls = Append(acc.toolCalls,
                                        [id |-> fr.id, name |-> fr.name,
                                         arguments |-> EmptyString])]
       ELSE acc
  ELSE IF fr.type = "content_block_delta"
  THEN IF fr.delta_type = "text_delta"
       THEN [acc EXCEPT !.content = @ \o fr.text]
       ELSE IF fr.delta_type = "input_json_delta" /\ acc.current >= 1
       THEN [acc EXCEPT !.toolCalls[acc.current].arguments = @ \o fr.text]
       ELSE acc
  ELSE IF fr.type = "content_block_stop"
  THEN [acc EXCEPT !.current = 0]
  ELSE acc

RECURSIVE AnthropicParseStream(_, _, _)
AnthropicParseStream(frames, i, acc) ==
  IF i > Len(frames)
  THEN [failure |-> "", content |-> acc.content, toolCalls |-> acc.toolCalls]
  ELSE AnthropicParseStream(frames, i + 1, AnthropicStep(acc, frames[i]))

RECURSIVE AnthropicParseBlocks(_, _, _)
AnthropicParseBlocks(blocks, i, acc) ==
  IF i > Len(blocks) THEN acc
  ELSE LET block == blocks[i]
       IN AnthropicParseBlocks(blocks, i + 1,
            IF block.type = "text"
            THEN [acc EXCEPT !.content = @ \o block.text]
            ELSE IF block.type = "tool_use"
            THEN [acc EXCEPT !.toolCalls =
                    Append(@, [id |-> block.id, name |-> block.name,
                               arguments |-> JSONStringify(block.input.members)])]
            ELSE acc)

AnthropicParseBody(body) ==
  IF ~body.has_content
  THEN [failure |-> NoResponseMessage, content |-> EmptyString, toolCalls |-> << >>]
  ELSE AnthropicParseBlocks(body.content, 1,
         [failure |-> "", content |-> EmptyString, toolCalls |-> << >>])

\* ---- Ollama: NDJSON lines, arguments as objects, ids made up by position
OllamaLine(text, calls, done) == [content |-> text, tool_calls |-> calls, done |-> done]

OllamaWireCalls(l) ==
  [i \in 1..Len(l.calls) |-> [name |-> l.calls[i].name, arguments |-> Obj(l.calls[i].input)]]

OllamaStream(l) ==
  IF ~l.usable THEN << OllamaLine(EmptyString, << >>, TRUE) >> ELSE
  [j \in 1..Len(l.text) |-> OllamaLine(l.text[j], << >>, FALSE)]
  \o (IF l.calls = << >> THEN << >>
      ELSE << OllamaLine(EmptyString, OllamaWireCalls(l), FALSE) >>)
  \o << OllamaLine(EmptyString, << >>, TRUE) >>

OllamaBody(l) ==
  [has_message |-> l.usable,
   message |-> [content |-> Flatten(l.text), tool_calls |-> OllamaWireCalls(l)]]

RECURSIVE OllamaPush(_, _, _)
OllamaPush(calls, tcs, i) ==
  IF i > Len(tcs) THEN calls
  ELSE OllamaPush(Append(calls, [id |-> "ollama_" \o ToString(Len(calls)),
                                 name |-> tcs[i].name,
                                 arguments |-> JSONStringify(tcs[i].arguments.members)]),
                  tcs, i + 1)

RECURSIVE OllamaParseStream(_, _, _)
OllamaParseStream(lines, i, acc) ==
  IF i > Len(lines) THEN acc
  ELSE LET next == [acc EXCEPT !.content = @ \o lines[i].content,
                               !.toolCalls = OllamaPush(@, lines[i].tool_calls, 1)]
       IN IF lines[i].done THEN next ELSE OllamaParseStream(lines, i + 1, next)

OllamaParseBody(body) ==
  IF ~body.has_message
  THEN [failure |-> NoResponseMessage, content |-> EmptyString, toolCalls |-> << >>]
  ELSE [failure |-> "", content |-> body.message.content,
        toolCalls |-> OllamaPush(<< >>, body.message.tool_calls, 1)]

\* ---- parseResponse, either form
NothingParsed == [failure |-> "", content |-> EmptyString, toolCalls |-> << >>]

ParseResponseStreaming(p, l, f) ==
  IF p = "openai" THEN OpenAIParseStream(OpenAIStream(l, f), 1, NothingParsed)
  ELSE IF p = "anthropic"
  THEN AnthropicParseStream(AnthropicStream(l, f), 1,
                            [content |-> EmptyString, toolCalls |-> << >>, current |-> 0])
  ELSE OllamaParseStream(OllamaStream(l), 1, NothingParsed)

ParseResponseJSON(p, l) ==
  IF p = "openai" THEN OpenAIParseBody(OpenAIBody(l))
  ELSE IF p = "anthropic" THEN AnthropicParseBody(AnthropicBody(l))
  ELSE OllamaParseBody(OllamaBody(l))

Parsed(r) ==
  [done |-> TRUE, failure |-> r.failure, content |-> r.content, toolCalls |-> r.toolCalls]

InitParse ==
  /\ LoopInit
  /\ NoAssembly
  /\ NoRecording
  /\ NoNDJSON
  /\ NoSSE
  /\ NoReplay
  /\ NoHandlers
  /\ NoSchemaInput
  /\ NoInstances
  /\ NoChain
  /\ NoStream
  /\ NoSchedule
  /\ maxIterations = Unlimited
  /\ logical \in LogicalResponses
  /\ streamed = NotParsed
  /\ single = NotParsed

ParseStreamed(f) ==
  /\ ~streamed.done
  /\ streamed' = Parsed(ParseResponseStreaming(provider, logical, f))
  /\ UNCHANGED << pc, provider, maxIterations, mode, hasSchema, tools, messages,
                  iterations, requestsSent, content, toolCalls, idx, toolResults,
                  slot, events, invocations, result, error, callsUsed, http, logical, single,
                  assemblyVars, recordVars, ndjsonVars, sseVars, replayVars, handlerVars, schemaVars, instanceVars, chainVars, streamVars, scheduleVars, rawToolCalls >>

ParseSingleShot ==
  /\ ~single.done
  /\ single' = Parsed(ParseResponseJSON(provider, logical))
  /\ UNCHANGED << pc, provider, maxIterations, mode, hasSchema, tools, messages,
                  iterations, requestsSent, content, toolCalls, idx, toolResults,
                  slot, events, invocations, result, error, callsUsed, http, logical, streamed,
                  assemblyVars, recordVars, ndjsonVars, sseVars, replayVars, handlerVars, schemaVars, instanceVars, chainVars, streamVars, scheduleVars, rawToolCalls >>

NextParse ==
  \/ \E f \in 1..MaxFragments : ParseStreamed(f)
  \/ ParseSingleShot

SpecParse == InitParse /\ [][NextParse]_vars

\* ------------------------------------------------------ assembling the tools
\* Callables a template may mention.
MaxSupplied == 2
\* Executions on one instance: the first prompt and its continuations.
MaxExecutions == 2

\* Callables by name and identity: two different functions named add.
AddV1 == [name |-> "add", fn |-> 1]
AddV2 == [name |-> "add", fn |-> 2]
SubV1 == [name |-> "sub", fn |-> 3]
Callables == {AddV1, AddV2, SubV1}
\* createStore('return_value', resolved): a new store for each execution.
ReturnStore(n) == [name |-> "return_value", fn |-> 0 - n]

ToolLists(k) == UNION {[1..n -> Callables] : n \in 0..k}

RECURSIVE KeepFirstPositions(_, _)
KeepFirstPositions(all, i) ==
  IF i > Len(all) THEN << >>
  ELSE IF \E j \in 1..(i - 1) : all[j].name = all[i].name
  THEN KeepFirstPositions(all, i + 1)
  ELSE LET same == {j \in i..Len(all) : all[j].name = all[i].name}
           last == CHOOSE j \in same : \A k \in same : k <= j
       IN <<all[last]>> \o KeepFirstPositions(all, i + 1)

\* A Map by name filled with previous then incoming: each name keeps the
\* position of its first entry and the value of its last.
DeduplicateTools(previous, incoming) == KeepFirstPositions(previous \o incoming, 1)

CollectConfigTools(perCall) == perCall \o configured.instance

\* allTools of makeExecutor.
AllTools(base, perCall, ret, n) ==
  base \o configured.system \o CollectConfigTools(perCall)
    \o (IF ret THEN <<ReturnStore(n)>> ELSE << >>)

InitAssemble ==
  /\ LoopInit
  /\ NoRecording
  /\ NoNDJSON
  /\ NoSSE
  /\ NoReplay
  /\ NoHandlers
  /\ NoSchemaInput
  /\ NoInstances
  /\ NoChain
  /\ NoStream
  /\ NoSchedule
  /\ maxIterations = Unlimited
  /\ logical = NoLogical
  /\ streamed = NotParsed
  /\ single = NotParsed
  /\ stage = "idle"
  /\ configured \in [instance : ToolLists(1), system : ToolLists(1)]
  /\ handed = << >>
  /\ prevTools = << >>
  /\ called = NoCall
  /\ executions = 0

Assembling ==
  UNCHANGED << pc, provider, maxIterations, mode, hasSchema, tools, messages,
               iterations, requestsSent, content, toolCalls, idx, toolResults, slot,
               events, invocations, result, error, callsUsed, http, parseVars,
               configured, recordVars, ndjsonVars, sseVars, replayVars, handlerVars, schemaVars, instanceVars, chainVars, streamVars, scheduleVars, rawToolCalls >>

\* prompt`...`(schema, perCallConfig): the first execution.
Prompt(template, perCall, ret) ==
  /\ stage = "idle"
  /\ executions = 0
  /\ executions' = 1
  /\ handed' = AllTools(template, perCall, ret, 1)
  /\ stage' = "loop"
  /\ called' = NoCall
  /\ UNCHANGED prevTools
  /\ Assembling

\* next`...`(schema, perCallConfig): a continuation.
NextPrompt(template, perCall, ret) ==
  /\ stage = "done"
  /\ executions < MaxExecutions
  /\ executions' = executions + 1
  /\ handed' = AllTools(DeduplicateTools(prevTools, template), perCall, ret,
                        executions + 1)
  /\ stage' = "loop"
  /\ called' = NoCall
  /\ UNCHANGED prevTools
  /\ Assembling

\* The model calls a tool by name and the loop looks it up.
ModelCalls(name) ==
  /\ stage = "loop"
  /\ FindTool(handed, name) # 0
  /\ called' = handed[FindTool(handed, name)]
  /\ UNCHANGED << stage, handed, prevTools, executions >>
  /\ Assembling

\* The loop returns: next is built from the history and allTools.
LoopEnds ==
  /\ stage = "loop"
  /\ stage' = "done"
  /\ prevTools' = handed
  /\ UNCHANGED << handed, called, executions >>
  /\ Assembling

NextAssemble ==
  \/ \E template \in ToolLists(MaxSupplied), perCall \in ToolLists(1), ret \in BOOLEAN :
        Prompt(template, perCall, ret)
  \/ \E template \in ToolLists(MaxSupplied), perCall \in ToolLists(1), ret \in BOOLEAN :
        NextPrompt(template, perCall, ret)
  \/ \E name \in {"add", "sub", "return_value"} : ModelCalls(name)
  \/ LoopEnds

SpecAssemble == InitAssemble /\ [][NextAssemble]_vars

\* ============================================== recording one tool result
\* What runToolLoop records for one invocation of a registered tool, from the
\* value the function returned or the error it threw. Strings are sequences of
\* characters, so that length and slice are those of the code; a text the code
\* never measures (the truncation marker, the wrapper of an error result, an
\* engine's error message) is one element.

MaxLimit == 3

Value(type, chars, items) == [type |-> type, chars |-> chars, items |-> items]

ReturnValues ==
  { Value("undefined", << >>, << >>),
    Value("null", << >>, << >>),
    Value("string", << >>, << >>),
    Value("string", <<"h", "i">>, << >>),
    Value("string", <<"h", "e", "l", "l", "o">>, << >>),
    Value("number", <<"7">>, << >>),
    Value("boolean", <<"t", "r", "u", "e">>, << >>),
    Value("array", << >>, <<1, 2>>),
    \* a plain object, with its JSON text
    Value("object", <<"{", "\"", "a", "\"", ":", "1", "}">>, << >>),
    \* a Set, a Map's keys(), a generator
    Value("iterable", << >>, <<1, 2>>),
    Value("iterable", << >>, << >>),
    \* an async generator, Deno's readDir()
    Value("asyncIterable", << >>, <<3>>),
    Value("function", << >>, << >>),
    Value("bigint", <<"1">>, << >>) }

ThrownMessages == { <<"boom">>, << >> }

Outcomes ==
  { [kind |-> "returned", value |-> v, message |-> << >>] : v \in ReturnValues }
    \cup { [kind |-> "thrown", value |-> Value("undefined", << >>, << >>), message |-> m] :
             m \in ThrownMessages }

Limits == {Unset} \cup (0..MaxLimit)

ResolveIterableResult(v) ==
  IF v.type \in {"undefined", "null", "string", "array"} THEN v
  ELSE IF v.type \in {"asyncIterable", "iterable"} THEN Value("array", << >>, v.items)
  ELSE v

RECURSIVE JoinItems(_)
JoinItems(items) ==
  IF items = << >> THEN << >>
  ELSE IF Len(items) = 1 THEN <<ToString(items[1])>>
  ELSE <<ToString(items[1]), ",">> \o JoinItems(Tail(items))

BigIntMessage == <<"Do not know how to serialize a BigInt">>
LengthOfUndefinedMessage == <<"Cannot read properties of undefined (reading 'length')">>

\* JSON.stringify(value): a text, undefined, or a TypeError.
StringifyResult(v) ==
  CASE v.type = "array" ->
         [status |-> "ok", chars |-> <<"[">> \o JoinItems(v.items) \o <<"]">>]
    [] v.type \in {"number", "boolean", "object"} -> [status |-> "ok", chars |-> v.chars]
    [] v.type = "function" -> [status |-> "undefined", chars |-> << >>]
    [] v.type = "bigint" -> [status |-> "throws", chars |-> BigIntMessage]
    [] OTHER -> [status |-> "ok", chars |-> v.chars]

\* resultStr.
ResultStr(v) ==
  IF v.type \in {"undefined", "null"} THEN [status |-> "ok", chars |-> <<"O", "K">>]
  ELSE IF v.type = "string" THEN [status |-> "ok", chars |-> v.chars]
  ELSE StringifyResult(v)

TruncationMarker(total) == <<"\n... (truncated, " \o ToString(total) \o " total chars)">>

Slice(chars, n) == SubSeq(chars, 1, IF n < Len(chars) THEN n ELSE Len(chars))

NeverTruncated(chars, m) == chars

Truncated(chars, m) ==
  IF m # Unset /\ m # 0 /\ Len(chars) > m
  THEN Slice(chars, m) \o TruncationMarker(Len(chars))
  ELSE chars

StringOf(chars) == [type |-> "string", chars |-> chars]

ThrownResult(message) ==
  [done |-> TRUE, resultStr |-> NoString,
   result |-> StringOf(<<"{\"error\":\"">> \o message \o <<"\"}">>)]

\* The try block and its catch.
ResultOf(o, m) ==
  IF o.kind = "thrown" THEN ThrownResult(o.message)
  ELSE LET s == ResultStr(ResolveIterableResult(o.value))
       IN CASE s.status = "throws" -> ThrownResult(s.chars)
            [] s.status = "undefined" ->
                 IF m # Unset /\ m # 0
                 THEN ThrownResult(LengthOfUndefinedMessage)
                 ELSE [done |-> TRUE, resultStr |-> [type |-> "undefined", chars |-> << >>],
                       result |-> [type |-> "undefined", chars |-> << >>]]
            [] OTHER ->
                 [done |-> TRUE, resultStr |-> StringOf(s.chars),
                  result |-> StringOf(Truncated(s.chars, m))]

InitRecord ==
  /\ LoopInit
  /\ NoNDJSON
  /\ NoSSE
  /\ NoReplay
  /\ NoHandlers
  /\ NoSchemaInput
  /\ NoInstances
  /\ NoChain
  /\ NoStream
  /\ NoSchedule
  /\ NoAssembly
  /\ maxIterations = Unlimited
  /\ logical = NoLogical
  /\ streamed = NotParsed
  /\ single = NotParsed
  /\ outcome \in Outcomes
  /\ limit \in Limits
  /\ recorded = NotRecorded

RecordResult ==
  /\ ~recorded.done
  /\ recorded' = ResultOf(outcome, limit)
  /\ UNCHANGED << pc, provider, maxIterations, mode, hasSchema, tools, messages,
                  iterations, requestsSent, content, toolCalls, idx, toolResults, slot,
                  events, invocations, result, error, callsUsed, http, parseVars,
                  assemblyVars, scheduleVars, streamVars, chainVars, instanceVars, schemaVars, handlerVars, replayVars, sseVars, ndjsonVars, outcome, limit, rawToolCalls >>

NextRecord == RecordResult

SpecRecord == InitRecord /\ [][NextRecord]_vars

\* ==================================================== the loop's suspensions
\* runToolLoop as the one async function it is: it is suspended at one await at
\* a time (fetch, the reads of the body, the tool function, the items of the
\* iterable it returned) and resumes when what it awaits settles. The requests
\* in flight and the tool invocations running are what the environment sees.

MaxRounds == 3
MaxBatch == 3
MaxChunks == 2
MaxItems == 2

InitSchedule ==
  /\ LoopInit
  /\ NoAssembly
  /\ NoRecording
  /\ NoNDJSON
  /\ NoSSE
  /\ NoReplay
  /\ NoHandlers
  /\ NoSchemaInput
  /\ NoInstances
  /\ NoChain
  /\ NoStream
  /\ maxIterations = Unlimited
  /\ provider = "openai"
  /\ logical = NoLogical
  /\ streamed = NotParsed
  /\ single = NotParsed
  /\ NoSchedule

Scheduling == UNCHANGED << loopVars, parseVars, assemblyVars, recordVars, ndjsonVars, sseVars, replayVars, handlerVars, schemaVars, instanceVars, chainVars, streamVars >>

\* provider.buildRequest and fetch(url, ...): the loop awaits the response.
SendRequest ==
  /\ at = "idle"
  /\ round < MaxRounds
  /\ round' = round + 1
  /\ inflight' = inflight + 1
  /\ at' = "fetch"
  /\ UNCHANGED << batch, current, active, settled, chunksLeft, itemsLeft >>
  /\ Scheduling

\* fetch resolves with an ok response: parseResponse starts reading the body.
ResponseArrives(chunks) ==
  /\ at = "fetch"
  /\ at' = "parse"
  /\ chunksLeft' = chunks
  /\ UNCHANGED << round, inflight, batch, current, active, settled, itemsLeft >>
  /\ Scheduling

\* await reader.read() yields a chunk.
ReadChunk ==
  /\ at = "parse"
  /\ chunksLeft > 0
  /\ chunksLeft' = chunksLeft - 1
  /\ UNCHANGED << at, round, inflight, batch, current, active, settled, itemsLeft >>
  /\ Scheduling

\* The body ends: parseResponse returns n complete calls; none is the
\* terminal turn.
ParseEnds(n) ==
  /\ at = "parse"
  /\ chunksLeft = 0
  /\ inflight' = inflight - 1
  /\ batch' = n
  /\ settled' = {}
  /\ current' = IF n = 0 THEN 0 ELSE 1
  /\ at' = IF n = 0 THEN "done" ELSE "start"
  /\ UNCHANGED << round, active, chunksLeft, itemsLeft >>
  /\ Scheduling

\* The loop after the call it is at has settled: the next call of the batch, or
\* the history is written and the next iteration begins.
NextPosition ==
  /\ settled' = settled \cup {current}
  /\ active' = active \ {current}
  /\ IF current < batch
     THEN current' = current + 1 /\ at' = "start"
     ELSE current' = current /\ at' = IF round < MaxRounds THEN "idle" ELSE "done"

\* A tool function is called and its promise is dropped.
StartCallDetached ==
  /\ at = "start"
  /\ active' = active \cup {current}
  /\ IF current < batch
     THEN current' = current + 1 /\ at' = "start"
     ELSE current' = current /\ at' = IF round < MaxRounds THEN "idle" ELSE "done"
  /\ UNCHANGED << round, inflight, batch, settled, chunksLeft, itemsLeft >>
  /\ Scheduling

\* await toolFn(...args): the function is called and the loop awaits it.
StartCall ==
  /\ at = "start"
  /\ active' = active \cup {current}
  /\ at' = "await"
  /\ UNCHANGED << round, inflight, batch, current, settled, chunksLeft, itemsLeft >>
  /\ Scheduling

\* The function returns a value that is no iterable, or throws.
CallSettles ==
  /\ at = "await"
  /\ NextPosition
  /\ UNCHANGED << round, inflight, batch, chunksLeft, itemsLeft >>
  /\ Scheduling

\* The function returns an async iterable of n items: resolveIterableResult
\* awaits them one by one.
CallYieldsIterable(n) ==
  /\ at = "await"
  /\ at' = "drain"
  /\ itemsLeft' = n
  /\ UNCHANGED << round, inflight, batch, current, active, settled, chunksLeft >>
  /\ Scheduling

DrainItem ==
  /\ at = "drain"
  /\ itemsLeft > 0
  /\ itemsLeft' = itemsLeft - 1
  /\ UNCHANGED << at, round, inflight, batch, current, active, settled, chunksLeft >>
  /\ Scheduling

\* The iterable is exhausted, or throws.
DrainEnds ==
  /\ at = "drain"
  /\ NextPosition
  /\ itemsLeft' = 0
  /\ UNCHANGED << round, inflight, batch, chunksLeft >>
  /\ Scheduling

NextSchedule ==
  \/ SendRequest
  \/ \E chunks \in 0..MaxChunks : ResponseArrives(chunks)
  \/ ReadChunk
  \/ \E n \in 0..MaxBatch : ParseEnds(n)
  \/ StartCall
  \/ CallSettles
  \/ \E n \in 0..MaxItems : CallYieldsIterable(n)
  \/ DrainItem
  \/ DrainEnds

SpecSchedule == InitSchedule /\ [][NextSchedule]_vars

\* ======================================================= reading a stream
\* parseResponse in streaming mode, one parsed stream event at a time: what it
\* emits and what it accumulates. toolCalls is the array as a function from
\* position (index + 1) to call, so that it may have holes as the array may.

MaxEvents == 3

Thought == <<Text("hmm")>>
Pieces == { <<Text("Hello")>>, <<Text(" World")>> }
FragmentX == <<Text("{\"a\":")>>
FragmentY == <<Text("1}")>>

OpenAIChunk(thinking, text, calls) ==
  [has_delta |-> TRUE, thinking |-> thinking, content |-> text, tool_calls |-> calls]

ToolDelta(index, id, name, arguments) ==
  [index |-> index, id |-> id, name |-> name, arguments |-> arguments]

ToolName(index) == IF index = 0 THEN "add" ELSE "sub"

OpenAIChunks ==
  { [has_delta |-> FALSE, thinking |-> EmptyString, content |-> EmptyString,
     tool_calls |-> << >>] }
    \cup { OpenAIChunk(EmptyString, text, << >>) : text \in Pieces \cup {EmptyString} }
    \cup { OpenAIChunk(Thought, EmptyString, << >>), OpenAIChunk(Thought, <<Text("Hello")>>, << >>) }
    \cup { OpenAIChunk(EmptyString, EmptyString,
                       << ToolDelta(i, WireId(i + 1), ToolName(i), FragmentX) >>) : i \in {0, 1} }
    \cup { OpenAIChunk(EmptyString, EmptyString, << ToolDelta(i, "", "", f) >>) :
             i \in {0, 1}, f \in {FragmentX, FragmentY} }

AnthropicEvent(type, kind, id, name, text) ==
  [type |-> type, kind |-> kind, id |-> id, name |-> name, text |-> text]

AnthropicEvents ==
  { AnthropicEvent("content_block_start", "tool_use", WireId(i), ToolName(i - 1), EmptyString) :
      i \in {1, 2} }
    \cup { AnthropicEvent("content_block_start", "text", "", "", EmptyString),
           AnthropicEvent("content_block_stop", "", "", "", EmptyString),
           AnthropicEvent("message_stop", "", "", "", EmptyString),
           AnthropicEvent("content_block_delta", "thinking_delta", "", "", Thought),
           AnthropicEvent("content_block_delta", "input_json_delta", "", "", FragmentX),
           AnthropicEvent("content_block_delta", "input_json_delta", "", "", FragmentY) }
    \cup { AnthropicEvent("content_block_delta", "text_delta", "", "", text) :
             text \in Pieces \cup {EmptyString} }

WireEvents(p) == IF p = "openai" THEN OpenAIChunks ELSE AnthropicEvents

Emit(ev, text) == [ev |-> ev, text |-> text]

NoCalls == [p \in {} |-> 0]

\* Every argument fragment is appended to the call created last.
OpenAIAccreteToLast(calls, tc) ==
  LET pos == IF DOMAIN calls = {} \/ tc.id # "" THEN tc.index + 1
             ELSE CHOOSE p \in DOMAIN calls : \A q \in DOMAIN calls : q <= p
      old == IF pos \in DOMAIN calls THEN calls[pos]
             ELSE [id |-> tc.id, name |-> tc.name, arguments |-> EmptyString]
  IN [p \in DOMAIN calls \cup {pos} |->
        IF p = pos
        THEN [id |-> IF tc.id # "" THEN tc.id ELSE old.id,
              name |-> IF tc.name # "" THEN tc.name ELSE old.name,
              arguments |-> old.arguments \o tc.arguments]
        ELSE calls[p]]

\* One entry of delta.tool_calls (openai.ts 138-150).
OpenAIAccreteByIndex(calls, tc) ==
  LET pos == tc.index + 1
      old == IF pos \in DOMAIN calls THEN calls[pos]
             ELSE [id |-> tc.id, name |-> tc.name, arguments |-> EmptyString]
  IN [p \in DOMAIN calls \cup {pos} |->
        IF p = pos
        THEN [id |-> IF tc.id # "" THEN tc.id ELSE old.id,
              name |-> IF tc.name # "" THEN tc.name ELSE old.name,
              arguments |-> old.arguments \o tc.arguments]
        ELSE calls[p]]

RECURSIVE OpenAIAccreteAll(_, _, _)
OpenAIAccreteAll(calls, tcs, i) ==
  IF i > Len(tcs) THEN calls
  ELSE OpenAIAccreteAll(OpenAIAccreteByIndex(calls, tcs[i]), tcs, i + 1)

\* Thinking text is appended to the content as well.
OpenAIReadThinkingAsContent(chunk, a, out) ==
  IF ~chunk.has_delta THEN [acc |-> a, emitted |-> out]
  ELSE [acc |-> [a EXCEPT !.content = @ \o chunk.thinking \o chunk.content,
                          !.toolCalls = OpenAIAccreteAll(@, chunk.tool_calls, 1)],
        emitted |-> out
          \o (IF chunk.thinking # EmptyString THEN <<Emit("thinking", chunk.thinking)>> ELSE << >>)
          \o (IF chunk.content # EmptyString THEN <<Emit("content", chunk.content)>> ELSE << >>)]

\* The body of the for-await over the SSE chunks (openai.ts 121-153).
OpenAIRead(chunk, a, out) ==
  IF ~chunk.has_delta THEN [acc |-> a, emitted |-> out]
  ELSE [acc |-> [a EXCEPT !.content = @ \o chunk.content,
                          !.toolCalls = OpenAIAccreteAll(@, chunk.tool_calls, 1)],
        emitted |-> out
          \o (IF chunk.thinking # EmptyString THEN <<Emit("thinking", chunk.thinking)>> ELSE << >>)
          \o (IF chunk.content # EmptyString THEN <<Emit("content", chunk.content)>> ELSE << >>)]

\* The switch over the event type (anthropic.ts 166-200).
AnthropicRead(e, a, out) ==
  CASE e.type = "content_block_start" /\ e.kind = "tool_use" ->
         LET pos == Cardinality(DOMAIN a.toolCalls) + 1
         IN [acc |-> [a EXCEPT !.currentToolIndex = pos - 1,
                               !.toolCalls = [p \in DOMAIN @ \cup {pos} |->
                                                IF p = pos
                                                THEN [id |-> e.id, name |-> e.name,
                                                      arguments |-> EmptyString]
                                                ELSE @[p]]],
             emitted |-> out]
    [] e.type = "content_block_delta" /\ e.kind = "text_delta" /\ e.text # EmptyString ->
         [acc |-> [a EXCEPT !.content = @ \o e.text],
          emitted |-> Append(out, Emit("content", e.text))]
    [] e.type = "content_block_delta" /\ e.kind = "thinking_delta" /\ e.text # EmptyString ->
         [acc |-> a, emitted |-> Append(out, Emit("thinking", e.text))]
    [] e.type = "content_block_delta" /\ e.kind = "input_json_delta"
         /\ a.currentToolIndex >= 0 ->
         [acc |-> [a EXCEPT !.toolCalls[a.currentToolIndex + 1].arguments = @ \o e.text],
          emitted |-> out]
    [] e.type = "content_block_stop" ->
         [acc |-> [a EXCEPT !.currentToolIndex = -1], emitted |-> out]
    [] OTHER -> [acc |-> a, emitted |-> out]

StreamRead(p, e, a, out) ==
  IF p = "openai" THEN OpenAIRead(e, a, out) ELSE AnthropicRead(e, a, out)

InitStream ==
  /\ LoopInit
  /\ NoAssembly
  /\ NoRecording
  /\ NoNDJSON
  /\ NoSSE
  /\ NoReplay
  /\ NoHandlers
  /\ NoSchemaInput
  /\ NoInstances
  /\ NoChain
  /\ NoSchedule
  /\ maxIterations = Unlimited
  /\ provider \in {"openai", "anthropic"}
  /\ logical = NoLogical
  /\ streamed = NotParsed
  /\ single = NotParsed
  /\ wire \in UNION {[1..n -> WireEvents(provider)] : n \in 0..MaxEvents}
  /\ consumed = 0
  /\ accum = [content |-> EmptyString, toolCalls |-> NoCalls, currentToolIndex |-> -1]
  /\ emitted = << >>
  /\ parsed = FALSE

Streaming == UNCHANGED << loopVars, parseVars, assemblyVars, recordVars, ndjsonVars, sseVars, replayVars, handlerVars, schemaVars, instanceVars, chainVars, scheduleVars >>

\* The stream yields its next event.
ReadEvent ==
  /\ ~parsed
  /\ consumed < Len(wire)
  /\ consumed' = consumed + 1
  /\ LET r == StreamRead(provider, wire[consumed + 1], accum, emitted)
     IN accum' = r.acc /\ emitted' = r.emitted
  /\ UNCHANGED << wire, parsed >>
  /\ Streaming

\* The stream ends: the closing newline is emitted and { content, toolCalls }
\* returned.
StreamEnds ==
  /\ ~parsed
  /\ consumed = Len(wire)
  /\ parsed' = TRUE
  /\ emitted' = IF accum.content # EmptyString
                THEN Append(emitted, Emit("content", <<Text("\n")>>))
                ELSE emitted
  /\ UNCHANGED << wire, consumed, accum >>
  /\ Streaming

NextStream == ReadEvent \/ StreamEnds

SpecStream == InitStream /\ [][NextStream]_vars

\* ================================================== a chain of executions
\* prompt`...`() and the next`...`() continuations built from its result: what
\* each execution hands to runToolLoop and what every request of the loop
\* carries. The system prompt is a string; its images are left out.

MaxLinks == 3
MaxRequests == 2

\* config.systemPrompt: undefined.
NoSystem == ""
SystemText == "Be brief."

NoRequest == [messages |-> << >>, system |-> NoSystem, tool_choice |-> "", tools |-> << >>]

\* A store the caller made with store('return_value', schema).
NamedStore == [name |-> "return_value", fn |-> 9]

UserPrompt(n) == <<Text("Turn " \o ToString(n))>>

\* The loop starts from the user turn alone.
InitialMessagesWithoutHistory(p, history, n) == << FormatUserMessage(p, UserPrompt(n)) >>

\* messages = [...(history || []), provider.formatUserMessage(promptText)]
InitialMessages(p, history, n) == history \o << FormatUserMessage(p, UserPrompt(n)) >>

ToolNames(ts) == [i \in 1..Len(ts) |-> ts[i].name]

\* The system prompt goes out with the first request of an execution only.
BuildRequestSystemOnce(p, msgs, ts, sys, schema) ==
  LET first == \A i \in 1..Len(msgs) : msgs[i].role = "user"
  IN IF p = "anthropic"
     THEN [messages |-> msgs,
           system |-> IF first THEN sys ELSE NoSystem,
           tool_choice |-> "",
           tools |-> ToolNames(ts)]
     ELSE [messages |-> (IF sys # NoSystem /\ first
                         THEN << [role |-> "system", content |-> sys] >> ELSE << >>) \o msgs,
           system |-> NoSystem,
           tool_choice |-> IF p = "openai" /\ ts # << >> THEN "auto" ELSE "",
           tools |-> ToolNames(ts)]

\* provider.buildRequest: the parts of the body that depend on the history, the
\* system prompt, the tools and the schema.
BuildRequest(p, msgs, ts, sys, schema) ==
  IF p = "anthropic"
  THEN [messages |-> msgs,
        system |-> sys,
        tool_choice |-> IF /\ ts # << >>
                           /\ schema
                           /\ \E i \in 1..Len(ts) : ts[i].name = "return_value"
                        THEN "return_value" ELSE "",
        tools |-> ToolNames(ts)]
  ELSE [messages |-> (IF sys # NoSystem
                      THEN << [role |-> "system", content |-> sys] >> ELSE << >>) \o msgs,
        system |-> NoSystem,
        tool_choice |-> IF p = "openai" /\ ts # << >> THEN "auto" ELSE "",
        tools |-> ToolNames(ts)]

InitChain ==
  /\ LoopInit
  /\ NoAssembly
  /\ NoRecording
  /\ NoNDJSON
  /\ NoSSE
  /\ NoReplay
  /\ NoHandlers
  /\ NoSchemaInput
  /\ NoInstances
  /\ NoSchedule
  /\ NoStream
  /\ maxIterations = Unlimited
  /\ logical = NoLogical
  /\ streamed = NotParsed
  /\ single = NotParsed
  /\ link = 0
  /\ phase = "idle"
  /\ sysPrompt \in {NoSystem, SystemText}
  /\ priorMessages = << >>
  /\ priorTools = << >>
  /\ convo = << >>
  /\ loopTools = << >>
  /\ loopSchemaGiven = FALSE
  /\ request = NoRequest
  /\ requestNo = 0

Chaining ==
  UNCHANGED << loopVars, parseVars, assemblyVars, recordVars, ndjsonVars, sseVars, replayVars, handlerVars, schemaVars, instanceVars, scheduleVars, streamVars >>

\* prompt`...`(schema?) when link = 0, otherwise next`...`(schema?) of the
\* result returned last: makeExecutor's execute up to the first request.
\* template: the tools mentioned; ret: prompt.return is mentioned.
StartExecution(template, ret, schema) ==
  /\ phase \in {"idle", "returned"}
  /\ link < MaxLinks
  /\ ret => schema
  /\ link' = link + 1
  /\ LET merged == IF link = 0 THEN template ELSE DeduplicateTools(priorTools, template)
         all == merged \o (IF ret THEN <<ReturnStore(link + 1)>> ELSE << >>)
         given == schema /\ ~ret
         msgs == InitialMessages(provider, priorMessages, link + 1)
     IN /\ loopTools' = all
        /\ loopSchemaGiven' = given
        /\ convo' = msgs
        /\ request' = BuildRequest(provider, msgs, all, sysPrompt, given)
  /\ requestNo' = 1
  /\ phase' = "request"
  /\ UNCHANGED << sysPrompt, priorMessages, priorTools >>
  /\ Chaining

ChainCall(name) == [id |-> "call_1", name |-> name, arguments |-> JSONStringify(<< >>)]

ToolTurn(p, name) ==
  << FormatAssistantMessage(p, EmptyString, <<ChainCall(name)>>) >>
    \o FormatToolResults(p, <<ResultInfo(ChainCall(name), <<Text("OK")>>)>>)

\* The response calls a tool that is no return store of this loop: the turn is
\* written to the history and the next request built.
ToolRound ==
  /\ phase = "request"
  /\ requestNo < MaxRequests
  /\ loopTools # << >>
  /\ convo' = convo \o ToolTurn(provider, loopTools[1].name)
  /\ request' = BuildRequest(provider, convo', loopTools, sysPrompt, loopSchemaGiven)
  /\ requestNo' = requestNo + 1
  /\ UNCHANGED << link, phase, sysPrompt, priorMessages, priorTools, loopTools,
                  loopSchemaGiven >>
  /\ Chaining

\* The response is the terminal turn, or it filled the return store of this
\* loop: the loop returns its messages and next is built from them and allTools.
LoopReturns(early) ==
  /\ phase = "request"
  /\ early => loopTools # << >> /\ loopTools[Len(loopTools)] = ReturnStore(link)
  /\ convo' = IF early THEN convo \o ToolTurn(provider, "return_value")
              ELSE Append(convo, FormatAssistantMessage(provider, <<Text("Done")>>, << >>))
  /\ priorMessages' = convo'
  /\ priorTools' = loopTools
  /\ phase' = "returned"
  /\ UNCHANGED << link, sysPrompt, loopTools, loopSchemaGiven, request, requestNo >>
  /\ Chaining

NextChain ==
  \/ \E template \in {<< >>, <<AddV1>>, <<NamedStore>>}, ret \in BOOLEAN, schema \in BOOLEAN :
        StartExecution(template, ret, schema)
  \/ ToolRound
  \/ \E early \in BOOLEAN : LoopReturns(early)

SpecChain == InitChain /\ [][NextChain]_vars

\* ================================================= instances and their config
\* Two instances of createTooledPrompt. A config object is a function from key
\* to value, every value a string, "undefined" for a key the object lacks.

MaxSent == 2
MaxAnonymous == 2

Instances == {"A", "B"}
Keys == {"modelName", "maxIterations", "silent"}

Partial(model, cap, silent) ==
  [k \in Keys |-> IF k = "modelName" THEN model ELSE IF k = "maxIterations" THEN cap ELSE silent]

\* DEFAULTS: modelName '', maxIterations undefined, silent false.
DEFAULTS == Partial("", "undefined", "false")

EmptyConfig == Partial("undefined", "undefined", "undefined")

InitialConfigs == { EmptyConfig, Partial("m1", "2", "undefined") }

\* Objects passed to setConfig; one has a valid and an invalid value.
SetConfigArgs ==
  { Partial("m2", "undefined", "undefined"),
    Partial("undefined", "undefined", "true"),
    Partial("m2", "0", "undefined") }

\* Objects passed to the executor; the last has a value validateConfig rejects.
PerCallConfigs ==
  { EmptyConfig,
    Partial("m3", "undefined", "undefined"),
    Partial("undefined", "1", "true"),
    Partial("undefined", "0", "undefined") }

\* The number a maxIterations value stands for.
CapOf(v) == IF v = "0" THEN 0 ELSE IF v = "1" THEN 1 ELSE 2

\* validateConfig does not throw.
ValidConfig(c) == c["maxIterations"] \in {"undefined", "1", "2"}

\* mergeConfigs(perCall, config, DEFAULTS)
MergeConfigs(perCall, config) ==
  [k \in Keys |-> IF perCall[k] # "undefined" THEN perCall[k]
                  ELSE IF config[k] # "undefined" THEN config[k]
                  ELSE DEFAULTS[k]]

\* { ...config, ...newConfig }
Spread(config, newConfig) ==
  [k \in Keys |-> IF newConfig[k] # "undefined" THEN newConfig[k] ELSE config[k]]

\* The object is applied without being validated.
SetConfigUnchecked(config, newConfig) ==
  [config |-> Spread(config, newConfig), threw |-> ~ValidConfig(newConfig)]

\* setConfig: validateConfig(newConfig), then the assignment.
SetConfigResult(config, newConfig) ==
  IF ValidConfig(newConfig)
  THEN [config |-> Spread(config, newConfig), threw |-> FALSE]
  ELSE [config |-> config, threw |-> TRUE]

NoValues == [k \in Keys |-> "none"]

Instance(config) ==
  [config |-> config,
   attempt |-> EmptyConfig,      \* the object last passed to setConfig
   threw |-> FALSE,              \* whether that call threw
   phase |-> "idle",
   perCall |-> EmptyConfig,
   atStart |-> EmptyConfig,      \* the instance config when the execution began
   resolved |-> NoValues,        \* resolvedConfig of the running execution
   sent |-> 0,
   used |-> NoValues,            \* what the last request of the loop was built from
   liveAtSend |-> NoValues,      \* the instance config when that request was built
   shown |-> "none",             \* the silent switch the default handlers saw last
   tools |-> << >>]              \* names of the anonymous functions it wrapped

\* The loop reads the instance config as it is now.
LoopValuesLive(inst) == MergeConfigs(inst.perCall, inst.config)

\* runToolLoop reads the resolved config it was handed.
LoopValues(inst) == inst.resolved

InitInstances ==
  /\ LoopInit
  /\ NoAssembly
  /\ NoRecording
  /\ NoNDJSON
  /\ NoSSE
  /\ NoReplay
  /\ NoHandlers
  /\ NoSchemaInput
  /\ NoSchedule
  /\ NoStream
  /\ NoChain
  /\ maxIterations = Unlimited
  /\ logical = NoLogical
  /\ streamed = NotParsed
  /\ single = NotParsed
  /\ provider = "openai"
  /\ \E c \in InitialConfigs : instances = [i \in Instances |-> Instance(c)]
  /\ anonymousCounter = 0

OfInstances ==
  UNCHANGED << loopVars, parseVars, assemblyVars, recordVars, ndjsonVars, sseVars, replayVars, handlerVars, schemaVars, scheduleVars, streamVars,
               chainVars >>

\* instance.setConfig(newConfig), also while a loop of the instance runs.
SetConfig(i, newConfig) ==
  /\ LET r == SetConfigResult(instances[i].config, newConfig)
     IN instances' = [instances EXCEPT ![i].config = r.config,
                                       ![i].threw = r.threw,
                                       ![i].attempt = newConfig]
  /\ UNCHANGED anonymousCounter
  /\ OfInstances

\* The executor is called with a per-call config: the config is resolved and
\* the loop starts.
\* One execution runs at a time.
ExecuteWith(i, perCall) ==
  /\ \A j \in Instances : instances[j].phase = "idle"
  /\ instances' = [instances EXCEPT ![i].phase = "loop",
                                    ![i].perCall = perCall,
                                    ![i].atStart = instances[i].config,
                                    ![i].resolved = MergeConfigs(perCall, instances[i].config),
                                    ![i].sent = 0,
                                    ![i].used = NoValues,
                                    ![i].liveAtSend = NoValues,
                                    ![i].shown = "none"]
  /\ UNCHANGED anonymousCounter
  /\ OfInstances

\* An iteration of the loop builds and sends its request.
SendIteration(i) ==
  /\ instances[i].phase = "loop"
  /\ instances[i].sent < MaxSent
  /\ LoopValues(instances[i])["maxIterations"] = "undefined"
       \/ instances[i].sent < CapOf(LoopValues(instances[i])["maxIterations"])
  /\ instances' = [instances EXCEPT ![i].sent = @ + 1,
                                    ![i].used = LoopValues(instances[i]),
                                    ![i].liveAtSend = instances[i].config]
  /\ UNCHANGED anonymousCounter
  /\ OfInstances

\* An event reaches the default handlers: isSilent() is resolveConfig().silent.
HandlerFires(i) ==
  /\ instances[i].phase = "loop"
  /\ instances' = [instances EXCEPT ![i].shown = MergeConfigs(EmptyConfig, instances[i].config)["silent"]]
  /\ UNCHANGED anonymousCounter
  /\ OfInstances

ExecutionEnds(i) ==
  /\ instances[i].phase = "loop"
  /\ instances[i].sent > 0 \/ instances[i].resolved["maxIterations"] = "0"
  /\ instances' = [instances EXCEPT ![i].phase = "idle",
                                    ![i].perCall = EmptyConfig,
                                    ![i].atStart = EmptyConfig,
                                    ![i].resolved = NoValues,
                                    ![i].sent = 0,
                                    ![i].used = NoValues,
                                    ![i].liveAtSend = NoValues,
                                    ![i].shown = "none"]
  /\ UNCHANGED anonymousCounter
  /\ OfInstances

\* tool(fn) for a function without a name, through instance.tool or a template.
WrapAnonymous(i) ==
  /\ anonymousCounter < MaxAnonymous
  /\ anonymousCounter' = anonymousCounter + 1
  /\ instances' = [instances EXCEPT ![i].tools = Append(@, "tool_" \o ToString(anonymousCounter + 1))]
  /\ OfInstances

NextInstances ==
  \E i \in Instances :
    \/ \E c \in SetConfigArgs : SetConfig(i, c)
    \/ \E c \in PerCallConfigs : ExecuteWith(i, c)
    \/ SendIteration(i)
    \/ HandlerFires(i)
    \/ ExecutionEnds(i)
    \/ WrapAnonymous(i)

SpecInstances == InitInstances /\ [][NextInstances]_vars

\* ============================================== the flat string-map parser
\* createSimpleSchemaParser({ value: '...', 'note?': '...' }) applied to one
\* input: null, a string, an array, or an object whose members are drawn from
\* the declared keys and one undeclared key.

Bool(x) == [type |-> "boolean", v |-> x]

FieldValues == {Undefined, JSNull, Str(""), Str("a"), Num("1"), Bool("true")}

MemberOrNone(key, val) == IF val = Undefined THEN << >> ELSE <<Member(key, val)>>

ObjectInputs ==
  { Obj(MemberOrNone("value", v) \o MemberOrNone("note", n) \o MemberOrNone("extra", e)) :
      v \in FieldValues, n \in FieldValues, e \in {Undefined, Str("x")} }

NonObjectInputs == { NullValue, [kind |-> "string", members |-> << >>],
                     [kind |-> "array", members |-> << >>] }

NotValidated == [done |-> FALSE, ok |-> FALSE, error |-> "", value |-> << >>]

InitSchema ==
  /\ LoopInit
  /\ NoAssembly
  /\ NoRecording
  /\ NoNDJSON
  /\ NoSSE
  /\ NoReplay
  /\ NoHandlers
  /\ NoInstances
  /\ NoSchedule
  /\ NoStream
  /\ NoChain
  /\ maxIterations = Unlimited
  /\ provider = "openai"
  /\ logical = NoLogical
  /\ streamed = NotParsed
  /\ single = NotParsed
  /\ data \in ObjectInputs \cup NonObjectInputs
  /\ validated = NotValidated

\* The parser runs on the input: it returns the result object or throws.
ParseData ==
  /\ ~validated.done
  /\ LET r == SchemaParse(data)
     IN validated' = [done |-> TRUE, ok |-> r.ok, error |-> r.error, value |-> r.value]
  /\ UNCHANGED data
  /\ UNCHANGED << loopVars, parseVars, assemblyVars, recordVars, ndjsonVars, sseVars, replayVars, handlerVars, scheduleVars, streamVars,
                  chainVars, instanceVars >>

NextSchema == ParseData

SpecSchema == InitSchema /\ [][NextSchema]_vars

\* ===================================================== the default handlers
\* installDefaultHandlers on one emitter: the events of an execution reach the
\* handlers one by one, and the silent switch may change between any two of
\* them (setConfig).

MaxEmits == 4

Emitted(name) == [kind |-> "event", what |-> name]
Wrote(what) == [kind |-> "write", what |-> what]

EventsEmitted == Len(SelectSeq(stdout, LAMBDA e : e.kind = "event"))

\* A content handler that advances the label state only when it writes.
ContentHandlerSkipsWhenSilent(l, sw) ==
  IF sw.silent THEN [labels |-> l, writes |-> << >>]
  ELSE [labels |-> [inThinking |-> FALSE, hasContent |-> TRUE],
        writes |-> (IF ~l.hasContent THEN <<Wrote("[Response]")>> ELSE << >>)
                     \o <<Wrote("content")>>]

\* target.on('content', ...)
ContentHandler(l, sw) ==
  [labels |-> IF ~l.hasContent THEN [inThinking |-> FALSE, hasContent |-> TRUE] ELSE l,
   writes |-> (IF ~l.hasContent /\ ~sw.silent THEN <<Wrote("[Response]")>> ELSE << >>)
                \o (IF ~sw.silent THEN <<Wrote("content")>> ELSE << >>)]

\* target.on('thinking', ...)
ThinkingHandler(l, sw) ==
  [labels |-> [l EXCEPT !.inThinking = TRUE],
   writes |-> (IF ~l.inThinking /\ ~sw.silent
               THEN <<Wrote("[Thinking]")>>
                      \o (IF ~sw.showThinking THEN <<Wrote("...")>> ELSE << >>)
               ELSE << >>)
                \o (IF ~sw.silent /\ sw.showThinking THEN <<Wrote("thinking")>> ELSE << >>)]

InitHandlers ==
  /\ LoopInit
  /\ NoAssembly
  /\ NoRecording
  /\ NoNDJSON
  /\ NoSSE
  /\ NoReplay
  /\ NoSchemaInput
  /\ NoInstances
  /\ NoSchedule
  /\ NoStream
  /\ NoChain
  /\ maxIterations = Unlimited
  /\ provider = "openai"
  /\ logical = NoLogical
  /\ streamed = NotParsed
  /\ single = NotParsed
  /\ labels = [inThinking |-> FALSE, hasContent |-> FALSE]
  /\ switches \in [silent : BOOLEAN, showThinking : BOOLEAN]
  /\ stdout = << >>

Handling ==
  /\ EventsEmitted < MaxEmits
  /\ UNCHANGED << loopVars, parseVars, assemblyVars, recordVars, ndjsonVars, sseVars, replayVars, schemaVars, instanceVars,
                  scheduleVars, streamVars, chainVars >>

\* emit('start'): the label state is reset, nothing is written.
OnStart ==
  /\ Handling
  /\ labels' = [inThinking |-> FALSE, hasContent |-> FALSE]
  /\ stdout' = Append(stdout, Emitted("start"))
  /\ UNCHANGED switches

OnThinking ==
  /\ Handling
  /\ LET h == ThinkingHandler(labels, switches)
     IN /\ labels' = h.labels
        /\ stdout' = Append(stdout, Emitted("thinking")) \o h.writes
  /\ UNCHANGED switches

OnContent ==
  /\ Handling
  /\ LET h == ContentHandler(labels, switches)
     IN /\ labels' = h.labels
        /\ stdout' = Append(stdout, Emitted("content")) \o h.writes
  /\ UNCHANGED switches

\* emit('tool_call', ...): the label state is reset and the call is logged.
OnToolCall ==
  /\ Handling
  /\ labels' = [inThinking |-> FALSE, hasContent |-> FALSE]
  /\ stdout' = Append(stdout, Emitted("tool_call"))
                 \o (IF ~switches.silent THEN <<Wrote("[Tool]")>> ELSE << >>)
  /\ UNCHANGED switches

\* emit('tool_result', ...) or emit('tool_error', ...)
OnToolOutcome(ev) ==
  /\ Handling
  /\ stdout' = Append(stdout, Emitted(ev))
                 \o (IF ~switches.silent
                     THEN <<Wrote(IF ev = "tool_result" THEN "[Result]" ELSE "[Error]")>>
                     ELSE << >>)
  /\ UNCHANGED << labels, switches >>

\* setConfig({ silent: ... }) between two events.
SilentChanges ==
  /\ switches' = [switches EXCEPT !.silent = ~@]
  /\ UNCHANGED << labels, stdout >>
  /\ UNCHANGED << loopVars, parseVars, assemblyVars, recordVars, ndjsonVars, sseVars, replayVars, schemaVars, instanceVars,
                  scheduleVars, streamVars, chainVars >>

NextHandlers ==
  \/ OnStart
  \/ OnThinking
  \/ OnContent
  \/ OnToolCall
  \/ \E ev \in {"tool_result", "tool_error"} : OnToolOutcome(ev)
  \/ SilentChanges

SpecHandlers == InitHandlers /\ [][NextHandlers]_vars

\* ============================================== one next invoked repeatedly
\* A result's next holds the message array its loop returned (buildNext's
\* prevMessages). next is invoked up to MaxRuns times, the executions running
\* one after another or interleaved. Arrays are objects: arrays[0] is the array
\* held by next, arrays[r] the one allocated for execution r, and a loop pushes
\* to the array its messages variable refers to.

MaxRuns == 3
MaxTurns == 2

HeldRef == 0

\* The history the previous execution returned.
PrevMessages == << [role |-> "user", run |-> 0], [role |-> "assistant", run |-> 0] >>

NotStarted == [phase |-> "idle", messages |-> HeldRef, turns |-> 0]

\* messages = history: the loop pushes to the array it was given.
MessagesAliasHistory(mem, r) ==
  [ref |-> HeldRef,
   mem |-> [mem EXCEPT ![HeldRef] = Append(@, [role |-> "user", run |-> r])]]

\* messages = [...(history || []), provider.formatUserMessage(...)]: a new array.
MessagesFromHistory(mem, r) ==
  [ref |-> r,
   mem |-> [mem EXCEPT ![r] = Append(mem[HeldRef], [role |-> "user", run |-> r])]]

InitReplay ==
  /\ LoopInit
  /\ NoAssembly
  /\ NoRecording
  /\ NoNDJSON
  /\ NoSSE
  /\ NoHandlers
  /\ NoSchemaInput
  /\ NoInstances
  /\ NoSchedule
  /\ NoStream
  /\ NoChain
  /\ maxIterations = Unlimited
  /\ logical = NoLogical
  /\ streamed = NotParsed
  /\ single = NotParsed
  /\ arrays = [a \in 0..MaxRuns |-> IF a = HeldRef THEN PrevMessages ELSE << >>]
  /\ runs = [r \in 1..MaxRuns |-> NotStarted]

Replaying ==
  UNCHANGED << loopVars, parseVars, assemblyVars, recordVars, ndjsonVars, sseVars, handlerVars, schemaVars,
               instanceVars, scheduleVars, streamVars, chainVars >>

\* next`...`() is executed once more: runToolLoop starts with history = prevMessages.
InvokeNext(r) ==
  /\ runs[r].phase = "idle"
  /\ \A q \in 1..(r - 1) : runs[q].phase # "idle"
  /\ LET m == MessagesFromHistory(arrays, r)
     IN /\ arrays' = m.mem
        /\ runs' = [runs EXCEPT ![r] = [phase |-> "loop", messages |-> m.ref, turns |-> 0]]
  /\ Replaying

\* A tool round: the assistant turn and the tool results are pushed.
PushToolRound(r) ==
  /\ runs[r].phase = "loop"
  /\ runs[r].turns < MaxTurns
  /\ arrays' = [arrays EXCEPT ![runs[r].messages] =
                  @ \o << [role |-> "assistant", run |-> r], [role |-> "tool", run |-> r] >>]
  /\ runs' = [runs EXCEPT ![r].turns = @ + 1]
  /\ Replaying

\* The terminal turn is pushed and the loop returns { result, messages }.
LoopReturnsMessages(r) ==
  /\ runs[r].phase = "loop"
  /\ arrays' = [arrays EXCEPT ![runs[r].messages] = Append(@, [role |-> "assistant", run |-> r])]
  /\ runs' = [runs EXCEPT ![r].phase = "returned"]
  /\ Replaying

NextReplay ==
  \E r \in 1..MaxRuns :
    \/ InvokeNext(r)
    \/ PushToolRound(r)
    \/ LoopReturnsMessages(r)

SpecReplay == InitReplay /\ [][NextReplay]_vars

\* ============================================================ the SSE decoder
\* parseSSEStream reading one response body. The body is a sequence of
\* characters; reader.read() hands it over in chunks of any length. A data
\* payload is JSON when it is a number written in digits.

NL == "\n"
DataPrefix == <<"d", "a", "t", "a", ":", " ">>
DoneSentinel == <<"[", "D", "O", "N", "E", "]">>

DataLine(payload) == DataPrefix \o payload \o <<NL>>

\* The bodies read, each with the frames a decoder of whole lines yields for it.
SSEBodies ==
  << [bytes |-> DataLine(<<"1">>) \o <<NL>> \o DataLine(<<"2", "3">>) \o <<NL>>
                  \o DataLine(DoneSentinel) \o <<NL>> \o DataLine(<<"9">>),
      frames |-> << <<"1">>, <<"2", "3">> >>],
     [bytes |-> DataPrefix \o <<"1", "\r", NL>> \o <<":", "k", NL>> \o DataLine(<<"x">>)
                  \o <<"d", "a", "t", "a", ":", "4", NL>> \o DataLine(<<" ", "5", " ">>)
                  \o DataPrefix \o <<"6">>,
      frames |-> << <<"1">>, <<"5">> >>],
     [bytes |-> DataLine(<<"7">>) \o DataLine(<<"8">>) \o DataPrefix \o DoneSentinel,
      frames |-> << <<"7">>, <<"8">> >>] >>

Digits == {"0", "1", "2", "3", "4", "5", "6", "7", "8", "9"}
Whitespace == {" ", "\r", "\t", NL}

\* JSON.parse(data) does not throw.
IsJSON(chars) == chars # << >> /\ \A i \in 1..Len(chars) : chars[i] \in Digits

\* String.prototype.trim
Trim(chars) ==
  LET keep == {i \in 1..Len(chars) : chars[i] \notin Whitespace}
  IN IF keep = {} THEN << >>
     ELSE SubSeq(chars, CHOOSE i \in keep : \A j \in keep : i <= j,
                        CHOOSE i \in keep : \A j \in keep : j <= i)

\* buffer.split('\n')
RECURSIVE SplitLines(_)
SplitLines(chars) ==
  LET breaks == {i \in 1..Len(chars) : chars[i] = NL}
  IN IF breaks = {} THEN <<chars>>
     ELSE LET b == CHOOSE i \in breaks : \A j \in breaks : i <= j
          IN <<SubSeq(chars, 1, b - 1)>> \o SplitLines(SubSeq(chars, b + 1, Len(chars)))

StartsWithData(line) == Len(line) >= 6 /\ SubSeq(line, 1, 6) = DataPrefix

\* The for loop over the complete lines of one read: what it yields and
\* whether it returned at the sentinel.
RECURSIVE YieldLines(_, _, _)
YieldLines(lines, i, out) ==
  IF i > Len(lines) THEN [yielded |-> out, returned |-> FALSE]
  ELSE IF ~StartsWithData(lines[i]) THEN YieldLines(lines, i + 1, out)
  ELSE LET d == Trim(SubSeq(lines[i], 7, Len(lines[i])))
       IN IF d = DoneSentinel THEN [yielded |-> out, returned |-> TRUE]
          ELSE YieldLines(lines, i + 1, IF IsJSON(d) THEN Append(out, d) ELSE out)

\* A decoder that treats every chunk as whole lines and keeps nothing over.
DecodeChunkNoCarry(buffer, chunk) ==
  LET r == YieldLines(SplitLines(chunk), 1, << >>)
  IN [buffer |-> << >>, yielded |-> r.yielded, returned |-> r.returned]

\* One pass of the while loop: buffer += chunk, the last piece is kept.
DecodeChunk(buffer, chunk) ==
  LET lines == SplitLines(buffer \o chunk)
      r == YieldLines(SubSeq(lines, 1, Len(lines) - 1), 1, << >>)
  IN [buffer |-> lines[Len(lines)], yielded |-> r.yielded, returned |-> r.returned]

InitSSE ==
  /\ LoopInit
  /\ NoAssembly
  /\ NoRecording
  /\ NoNDJSON
  /\ NoReplay
  /\ NoHandlers
  /\ NoSchemaInput
  /\ NoInstances
  /\ NoSchedule
  /\ NoStream
  /\ NoChain
  /\ maxIterations = Unlimited
  /\ provider = "openai"
  /\ logical = NoLogical
  /\ streamed = NotParsed
  /\ single = NotParsed
  /\ \E s \in 1..Len(SSEBodies) :
       sse = [source |-> s, rest |-> SSEBodies[s].bytes, buffer |-> << >>,
              yielded |-> << >>, finished |-> FALSE, reads |-> 0, cutInLine |-> FALSE]

Decoding ==
  /\ sse.source # 0
  /\ ~sse.finished
  /\ UNCHANGED << loopVars, parseVars, assemblyVars, recordVars, ndjsonVars, replayVars, handlerVars,
                  schemaVars, instanceVars, scheduleVars, streamVars, chainVars >>

\* reader.read() resolves with the next n characters of the body.
ReadBytes(n) ==
  /\ Decoding
  /\ n \in 1..Len(sse.rest)
  /\ LET d == DecodeChunk(sse.buffer, SubSeq(sse.rest, 1, n))
     IN sse' = [sse EXCEPT !.rest = SubSeq(@, n + 1, Len(@)),
                           !.buffer = d.buffer,
                           !.yielded = @ \o d.yielded,
                           !.finished = d.returned,
                           !.reads = IF @ < 2 THEN @ + 1 ELSE @,
                           !.cutInLine = @ \/ (n < Len(sse.rest) /\ sse.rest[n] # NL)]

\* reader.read() resolves with done: the loop breaks.
ReadDone ==
  /\ Decoding
  /\ sse.rest = << >>
  /\ sse' = [sse EXCEPT !.finished = TRUE]

NextSSE ==
  \/ \E n \in 1..Len(sse.rest) : ReadBytes(n)
  \/ ReadDone

SpecSSE == InitSSE /\ [][NextSSE]_vars

\* ================================================= Ollama's streamed body
\* OllamaProvider.parseResponse reading newline-delimited JSON. A body is a
\* sequence of characters read in chunks of any length. An object is written
\* in five characters, { c t d }: c its message.content ("-" for none), t "t"
\* when message.tool_calls holds one call and "-" when it holds none, d "1"
\* for done = true and "0" for done = false.

StreamObject(c, t, d) == <<"{", c, t, d, "}", NL>>

\* The bodies read, each with what the objects up to the one with done = true
\* amount to.
NDJSONBodies ==
  << [bytes |-> StreamObject("a", "-", "0") \o StreamObject("b", "t", "1")
                  \o StreamObject("c", "t", "0"),
      content |-> <<"a", "b">>, calls |-> 1],
     [bytes |-> StreamObject("a", "-", "0") \o <<NL>> \o <<"{", "x", NL>>
                  \o StreamObject("-", "t", "0") \o StreamObject("b", "-", "1"),
      content |-> <<"a", "b">>, calls |-> 1],
     [bytes |-> StreamObject("a", "-", "1") \o <<"\r", NL>> \o StreamObject("b", "-", "0")
                  \o StreamObject("-", "t", "1"),
      content |-> <<"a">>, calls |-> 0] >>

\* JSON.parse(line) does not throw.
IsObject(line) == Len(line) = 5 /\ line[1] = "{" /\ line[5] = "}"

OllamaCall(n) == [id |-> "ollama_" \o ToString(n), name |-> "add"]

\* The for loop over the complete lines of one read: content and tool calls
\* accumulate, a content event is emitted for each non-empty content, and the
\* loop over these lines is left at an object with done = true.
RECURSIVE HandleLines(_, _, _)
HandleLines(lines, i, st) ==
  IF i > Len(lines) THEN st
  ELSE IF Trim(lines[i]) = << >> \/ ~IsObject(lines[i]) THEN HandleLines(lines, i + 1, st)
  ELSE LET line == lines[i]
           withContent == IF line[2] # "-"
                          THEN [st EXCEPT !.content = Append(@, line[2]),
                                          !.emitted = Append(@, line[2])]
                          ELSE st
           withCalls == IF line[3] = "t"
                        THEN [withContent EXCEPT !.toolCalls =
                                Append(@, OllamaCall(Len(withContent.toolCalls)))]
                        ELSE withContent
       IN IF line[4] = "1" THEN withCalls ELSE HandleLines(lines, i + 1, withCalls)

InitNDJSON ==
  /\ LoopInit
  /\ NoAssembly
  /\ NoRecording
  /\ NoSSE
  /\ NoReplay
  /\ NoHandlers
  /\ NoSchemaInput
  /\ NoInstances
  /\ NoSchedule
  /\ NoStream
  /\ NoChain
  /\ maxIterations = Unlimited
  /\ provider = "ollama"
  /\ logical = NoLogical
  /\ streamed = NotParsed
  /\ single = NotParsed
  /\ \E s \in 1..Len(NDJSONBodies) :
       ndjson = [source |-> s, rest |-> NDJSONBodies[s].bytes, buffer |-> << >>,
                 content |-> << >>, toolCalls |-> << >>, emitted |-> << >>,
                 finished |-> FALSE, reads |-> 0]

ReadingNDJSON ==
  /\ ndjson.source # 0
  /\ ~ndjson.finished
  /\ UNCHANGED << loopVars, parseVars, assemblyVars, recordVars, sseVars, replayVars,
                  handlerVars, schemaVars, instanceVars, scheduleVars, streamVars, chainVars >>

\* reader.read() resolves with the next n characters of the body.
OllamaReadBytes(n) ==
  /\ ReadingNDJSON
  /\ n \in 1..Len(ndjson.rest)
  /\ LET lines == SplitLines(ndjson.buffer \o SubSeq(ndjson.rest, 1, n))
         st == HandleLines(SubSeq(lines, 1, Len(lines) - 1), 1,
                           [content |-> ndjson.content, toolCalls |-> ndjson.toolCalls,
                            emitted |-> ndjson.emitted])
     IN ndjson' = [ndjson EXCEPT !.rest = SubSeq(@, n + 1, Len(@)),
                                 !.buffer = lines[Len(lines)],
                                 !.content = st.content,
                                 !.toolCalls = st.toolCalls,
                                 !.emitted = st.emitted,
                                 !.reads = IF @ < 2 THEN @ + 1 ELSE @]

\* reader.read() resolves with done: the while loop breaks, the closing
\* newline is emitted when there is content, and { content, toolCalls } is
\* returned.
OllamaReadDone ==
  /\ ReadingNDJSON
  /\ ndjson.rest = << >>
  /\ ndjson' = [ndjson EXCEPT !.finished = TRUE,
                              !.emitted = IF ndjson.content # << >> THEN Append(@, NL) ELSE @]

NextNDJSON ==
  \/ \E n \in 1..Len(ndjson.rest) : OllamaReadBytes(n)
  \/ OllamaReadDone

SpecNDJSON == InitNDJSON /\ [][NextNDJSON]_vars

\* ================================================================== claims
Last(seq) == seq[Len(seq)]

Finished == pc \in {"resolved", "rejected"}

\* C1: with a cap N, at most N requests are sent, the iteration-exhaustion
\* error is raised only after exactly N round-trips, and a loop whose N
\* responses all carried a complete tool call, with no return store filled,
\* ends with the iteration-exhaustion error naming N.
C1_IterationCapExact ==
  maxIterations # Unlimited =>
    /\ requestsSent <= maxIterations
    /\ (error = MaxIterationsMessage =>
          requestsSent = maxIterations /\ iterations = maxIterations)
    /\ (/\ Finished
        /\ requestsSent = maxIterations
        /\ toolCalls # << >>
        /\ ~StoreFilled(slot))
         => (pc = "rejected" /\ error = MaxIterationsMessage)

\* C2: when a request other than the first is in flight, the history ends with
\* the assistant turn carrying the k complete calls of the preceding response
\* followed by exactly k tool results, the i-th for the i-th call, in order,
\* in the provider's format.
C2_ResultsMatchCalls ==
  (pc = "fetch" /\ requestsSent > 1) =>
    LET k == Len(toolCalls)
        n == Len(messages)
    IN /\ k >= 1
       /\ Len(toolResults) = k
       /\ \A i \in 1..k : /\ toolResults[i].id = toolCalls[i].id
                          /\ toolResults[i].name = toolCalls[i].name
       /\ IF provider = "anthropic"
          THEN /\ n >= 3
               /\ messages[n].role = "user"
               /\ Len(messages[n].content) = k
               /\ \A i \in 1..k :
                    /\ messages[n].content[i].type = "tool_result"
                    /\ messages[n].content[i].tool_use_id = toolCalls[i].id
                    /\ messages[n].content[i].content = toolResults[i].result
               /\ messages[n - 1].role = "assistant"
               /\ Len(messages[n - 1].content) = k
               /\ \A i \in 1..k :
                    /\ messages[n - 1].content[i].type = "tool_use"
                    /\ messages[n - 1].content[i].id = toolCalls[i].id
                    /\ messages[n - 1].content[i].name = toolCalls[i].name
          ELSE /\ n >= k + 2
               /\ \A i \in 1..k :
                    /\ messages[n - k + i].role = "tool"
                    /\ messages[n - k + i].content = toolResults[i].result
                    /\ provider = "openai" =>
                         messages[n - k + i].tool_call_id = toolCalls[i].id
               /\ messages[n - k].role = "assistant"
               /\ Len(messages[n - k].tool_calls) = k
               /\ \A i \in 1..k :
                    /\ messages[n - k].tool_calls[i].name = toolCalls[i].name
                    /\ provider = "openai" =>
                         messages[n - k].tool_calls[i].id = toolCalls[i].id

\* C2 witness: a second request is in flight after a batch of two calls, the
\* first to an unknown tool and the second with unparsable arguments.
C2_Witness ==
  /\ pc = "fetch"
  /\ requestsSent = 2
  /\ Len(toolCalls) = 2
  /\ toolCalls[1].name = "lookup"
  /\ toolCalls[2].arguments = <<Text("not json")>>

\* C3: once the return store's slot is filled, no further request is sent and
\* the loop ends by resolving with the stored value.
C3_EarlyExitOnStore ==
  (ReturnStoreActive /\ slot.filled) =>
    /\ pc # "fetch"
    /\ Finished => (pc = "resolved" /\ result.value = StoreGet(slot))

\* C4 as claimed: once the slot holds a value, nothing changes it.
C4_WriteOnce == [][slot.filled => slot' = slot]_vars

IsStoreInvocation(inv) == inv.name = StoreName(mode)

\* The object the store rebuilds from an invocation's positional arguments.
StoredObjectOf(inv) ==
  LET present == {i \in 1..Len(SchemaFields) : inv.args[i] # Undefined}
  IN [value |-> IF 1 \in present THEN inv.args[1] ELSE Undefined,
      note |-> IF 2 \in present THEN inv.args[2] ELSE Undefined]

SlotView(s) == [value |-> Get(s.value, "value"), note |-> Get(s.value, "note")]

\* C4 amended: the slot is last-write-wins.  A store invocation that is
\* acknowledged leaves the slot holding the object of that invocation; every
\* other step of the loop leaves the slot as it was, so a filled slot is never
\* emptied and a rejected invocation does not change it.
C4_LastWriteWins ==
  [][pc = "dispatch" =>
       IF /\ Len(toolResults') = Len(toolResults) + 1
          /\ Last(toolResults').result = StoreAck
       THEN /\ Len(invocations') = Len(invocations) + 1
            /\ IsStoreInvocation(Last(invocations'))
            /\ slot'.filled
            /\ SlotView(slot') = StoredObjectOf(Last(invocations'))
       ELSE slot' = slot]_vars

\* C4 witness: two acknowledged store invocations with different values; the
\* slot holds the second.
C4_Witness ==
  /\ Len(invocations) = 2
  /\ IsStoreInvocation(invocations[1])
  /\ IsStoreInvocation(invocations[2])
  /\ invocations[1].args[1] = Str("x")
  /\ invocations[2].args[1] = Str("y")
  /\ Len(toolResults) >= 1
  /\ Last(toolResults).result = StoreAck
  /\ slot.filled
  /\ Get(slot.value, "value") = Str("y")

\* C5: an execution with prompt.return and a schema resolves only with a value
\* that was stored through return_value.
C5_ReturnOnlyValidated ==
  (mode = "return" /\ hasSchema /\ pc = "resolved") =>
    (slot.filled /\ result.value = StoreGet(slot))

\* C6: a step that invokes a callable never rejects the caller (other than by
\* the iteration cap): it appends exactly one result for the call and emits
\* a tool_call event followed by one tool_result or tool_error event.
C6_ToolErrorAbsorbed ==
  [][(pc = "dispatch" /\ invocations' # invocations) =>
       /\ pc' = "rejected" => error' = MaxIterationsMessage
       /\ Len(toolResults') = Len(toolResults) + 1
       /\ Last(toolResults').id = toolCalls[idx].id
       /\ Len(events') = Len(events) + 2
       /\ Last(events').ev \in {"tool_result", "tool_error"}
       /\ Last(events').name = toolCalls[idx].name]_vars

Unregistered(name) == \A i \in 1..Len(tools) : tools[i].name # name

\* The step appends exactly one result, for the call at idx, and it is error-shaped.
AppendsErrorResult ==
  /\ Len(toolResults') = Len(toolResults) + 1
  /\ SubSeq(toolResults', 1, Len(toolResults)) = toolResults
  /\ Last(toolResults').id = toolCalls[idx].id
  /\ Last(toolResults').name = toolCalls[idx].name
  /\ IsErrorResult(Last(toolResults').result)

\* C7 as claimed: a call to an unregistered tool yields exactly one
\* error-shaped result, invokes no callable and does not reject the caller;
\* and when the batch ends with it the loop sends a further request, unless
\* the iteration cap is reached.
C7_UnknownToolContinues ==
  [][(pc = "dispatch" /\ Unregistered(toolCalls[idx].name)) =>
          /\ AppendsErrorResult
          /\ invocations' = invocations
          /\ pc' = "rejected" => error' = MaxIterationsMessage
          /\ idx = Len(toolCalls) =>
               \/ pc' = "fetch" /\ requestsSent' = requestsSent + 1
               \/ pc' = "rejected" /\ error' = MaxIterationsMessage]_vars

\* C7 amended: the step that handles a call to an unregistered tool appends
\* exactly one error-shaped result for it, invokes no callable, emits no event
\* and goes on to the next call of the batch; when it is the last call of the
\* batch the loop resolves with the stored value if the return store was filled
\* during the batch, else rejects with iteration exhaustion if the cap is
\* reached, else sends a further request.
C7_UnknownToolStep ==
  [][(pc = "dispatch" /\ Unregistered(toolCalls[idx].name)) =>
       /\ AppendsErrorResult
       /\ invocations' = invocations
       /\ events' = events
       /\ IF idx < Len(toolCalls)
          THEN pc' = "dispatch" /\ idx' = idx + 1
          ELSE IF ReturnStoreActive /\ slot.filled
          THEN pc' = "resolved" /\ result'.value = StoreGet(slot)
          ELSE IF maxIterations # Unlimited /\ iterations + 1 >= maxIterations
          THEN pc' = "rejected" /\ error' = MaxIterationsMessage
          ELSE pc' = "fetch" /\ requestsSent' = requestsSent + 1]_vars

\* C7 witness: an unknown tool was answered with an error result, nothing was
\* invoked, and the second request is in flight.
C7_Witness ==
  /\ pc = "fetch"
  /\ requestsSent = 2
  /\ Len(toolCalls) = 1
  /\ Unregistered(toolCalls[1].name)
  /\ Len(toolResults) = 1
  /\ IsErrorResult(toolResults[1].result)
  /\ invocations = << >>

NotJSONText(s) == s = EmptyString \/ \E i \in 1..Len(s) : s[i].t = "text"

\* C8: the step that handles a call to a registered tool whose argument string
\* is not valid JSON invokes no callable, emits one tool_error event for the
\* call, appends one error-shaped result for it, never rejects the caller
\* (other than by the iteration cap) and goes on to the next call of the batch.
C8_BadArgumentsStep ==
  [][(/\ pc = "dispatch"
      /\ ~Unregistered(toolCalls[idx].name)
      /\ NotJSONText(toolCalls[idx].arguments)) =>
       /\ invocations' = invocations
       /\ Len(events') = Len(events) + 1
       /\ Last(events').ev = "tool_error"
       /\ Last(events').name = toolCalls[idx].name
       /\ AppendsErrorResult
       /\ idx < Len(toolCalls) => (pc' = "dispatch" /\ idx' = idx + 1)
       /\ pc' = "rejected" => error' = MaxIterationsMessage]_vars

\* C8 witness: the first call of a batch of two had unparsable arguments; its
\* error result and event are recorded and the second call is up next.
C8_Witness ==
  /\ pc = "dispatch"
  /\ idx = 2
  /\ NotJSONText(toolCalls[1].arguments)
  /\ Len(toolResults) = 1
  /\ IsErrorResult(toolResults[1].result)
  /\ Last(events).ev = "tool_error"
  /\ invocations = << >>

C10_StreamedEqualsSingleShot ==
  (logical.usable /\ streamed.done /\ single.done) =>
    /\ streamed.content = single.content
    /\ streamed.toolCalls = single.toolCalls

HasEmptyInput == \E i \in 1..Len(logical.calls) : logical.calls[i].input = EmptyInput

\* The two forms agree whenever the adapter is not Anthropic's or no tool call
\* has an empty input.
C10_AgreeElsewhere ==
  (logical.usable /\ streamed.done /\ single.done /\ ~(provider = "anthropic" /\ HasEmptyInput)) =>
    /\ streamed.content = single.content
    /\ streamed.toolCalls = single.toolCalls

\* C11: parsing a response that holds no usable choice or content at all
\* fails with an explicit error, in streaming and in non-streaming mode.
C11_VoidResponseFails ==
  ~logical.usable =>
    /\ streamed.done => streamed.failure # ""
    /\ single.done => single.failure # ""

\* What holds: the single-shot form of such a response fails with the error,
\* and a well-formed response with empty text is returned as an empty answer
\* in either form.
C11_SingleShotFails ==
  /\ (~logical.usable /\ single.done) => single.failure = NoResponseMessage
  /\ (logical.usable /\ logical.text = << >> /\ logical.calls = << >>) =>
       /\ streamed.done => (streamed.failure = "" /\ streamed.content = EmptyString)
       /\ single.done => (single.failure = "" /\ single.content = EmptyString)

\* C12: once the timer has fired on a pending fetch, the call is aborted and
\* the only thing the loop does is reject with the timeout error naming the
\* configured timeout; a fetch failure on a signal that was not aborted is
\* rejected with its own message, and only an aborted call is ever reported
\* as a timeout.
C12_TimeoutDistinct ==
  [][/\ (pc = "fetch" /\ http.signal = "aborted") =>
          /\ pc' = "rejected"
          /\ error' = "Request timeout after 60000ms"
          /\ requestsSent' = requestsSent
     /\ (pc = "fetch" /\ http.signal = "armed" /\ http'.failure # "") =>
          /\ pc' = "rejected"
          /\ error' = "fetch failed"
     /\ (pc' = "rejected" /\ error' = "Request timeout after 60000ms") =>
          http'.signal = "aborted"]_vars

C12_Witness ==
  /\ pc = "rejected"
  /\ http.signal = "aborted"
  /\ error = "Request timeout after 60000ms"
  /\ requestsSent = 2

\* C13: a response that is not ok rejects the loop with an error carrying
\* the status code and the body text, without a further request or
\* invocation, and a rejected loop takes no further step.
C13_HttpErrorFatal ==
  [][/\ pc # "rejected"
     /\ (pc = "fetch" /\ http'.status \notin {0, 200}) =>
          /\ pc' = "rejected"
          /\ error' = "LLM request failed (" \o ToString(http'.status) \o "): "
                         \o StatusText(http'.status)
          /\ requestsSent' = requestsSent
          /\ invocations' = invocations]_vars

C13_Witness ==
  /\ pc = "rejected"
  /\ http.status = 500
  /\ error = "LLM request failed (500): Internal Server Error"
  /\ requestsSent = 2
  /\ Len(invocations) = 1

\* C14: on the terminal turn of a loop that was handed a schema, content that
\* is not JSON rejects with the parse error carrying the raw content, JSON
\* that fails the schema rejects with the validation error carrying the
\* validator's message and the parsed JSON, and the loop resolves only with
\* the value the schema's parse returned.
TerminalStep == pc = "fetch" /\ http'.status = 200 /\ pc' # "dispatch"

C14_TerminalSchema ==
  [][(TerminalStep /\ hasSchema /\ mode = "store") =>
       /\ content' = <<Text("Done")>> =>
            /\ pc' = "rejected"
            /\ error' = "Failed to parse JSON response: Unexpected token\n\nRaw content:\nDone"
       /\ content' = EmptyString =>
            /\ pc' = "rejected"
            /\ error' = "Failed to parse JSON response: Unexpected token\n\nRaw content:\n"
       /\ content' = <<LBrace, Member("value", Num("1")), RBrace>> =>
            /\ pc' = "rejected"
            /\ error' = "Schema validation failed: Field \"value\" must be a string, got number\n\nParsed JSON:\n{\n  \"value\": 1\n}"
       /\ content' = <<LBrace, Member("value", Str("x")), Member("extra", Str("e")), RBrace>> =>
            /\ pc' = "resolved"
            /\ result'.value = <<Member("value", Str("x"))>>
       /\ pc' = "resolved" => result'.source = "schema"
       /\ pc' \in {"resolved", "rejected"}]_vars

C14_Witness ==
  /\ pc = "rejected"
  /\ hasSchema /\ mode = "store"
  /\ requestsSent = 2
  /\ error = "Schema validation failed: Field \"value\" must be a string, got number\n\nParsed JSON:\n{\n  \"value\": 1\n}"

\* C15: a store call whose arguments fail the schema leaves the slot as it
\* was, emits a tool_error event, appends the validator's message as an error
\* result for that call, and the loop resolves after it only if the slot had
\* been filled before the call.
RejectedStoreCall ==
  /\ pc = "dispatch"
  /\ toolCalls[idx].name \in {"return_value", "store_value_1"}
  /\ toolCalls[idx].arguments = <<LBrace, Member("note", Str("n")), RBrace>>

C15_StoreRejectionReported ==
  [][RejectedStoreCall =>
       /\ slot' = slot
       /\ Len(invocations') = Len(invocations) + 1
       /\ toolResults' =
            Append(toolResults,
                   [id |-> toolCalls[idx].id, name |-> toolCalls[idx].name,
                    result |-> <<LBrace,
                                 Member("error", Str("Missing required field: \"value\"")),
                                 RBrace>>])
       /\ Last(events').ev = "tool_error"
       /\ Last(events').text = "Missing required field: \"value\""
       /\ pc' = "resolved" => slot.filled
       /\ pc' = "rejected" => error' = MaxIterationsMessage]_vars

C15_Witness ==
  /\ pc = "fetch"
  /\ mode = "return"
  /\ requestsSent = 2
  /\ ~slot.filled
  /\ Len(toolResults) = 1
  /\ toolResults[1].name = "return_value"
  /\ IsErrorResult(toolResults[1].result)
  /\ Last(events).ev = "tool_error"

\* C16: the names of the callables handed to the loop at the start of every
\* execution are pairwise distinct.
C16_DistinctNames ==
  stage = "loop" =>
    \A i, j \in 1..Len(handed) : i # j => handed[i].name # handed[j].name

\* C17: when several callables of one name are supplied to the first
\* execution, a model call to that name invokes the one registered last.
C17_LastRegisteredWins ==
  (stage = "loop" /\ executions = 1 /\ called # NoCall) =>
    \A i \in 1..Len(handed) :
      (handed[i].name = called.name /\ \A j \in (i + 1)..Len(handed) :
                                         handed[j].name # called.name)
        => called = handed[i]

\* The invocation returned and its value has a canonical string.
Canonicalized == recorded.done /\ recorded.resultStr.type = "string"

\* C18 (as stated): with a maximum length M configured, a result whose canonical
\* string is longer than M is recorded as its first M characters followed by the
\* marker stating the original count, and one of length at most M unchanged.
C18_TruncatedAtAnyLimit ==
  (Canonicalized /\ limit # Unset) =>
    LET s == recorded.resultStr.chars
    IN IF Len(s) > limit
       THEN recorded.result.chars = SubSeq(s, 1, limit) \o TruncationMarker(Len(s))
       ELSE recorded.result.chars = s

\* C18 (amended): the above holds for M >= 1 and for the canonical string of a
\* value the tool returned; with M = 0 the result is recorded whole, as it is with
\* no maximum; and the result recorded for an invocation that threw is the
\* error text whole, whatever its length.
C18_TruncatedAtPositiveLimit ==
  /\ (Canonicalized /\ limit >= 1) =>
       LET s == recorded.resultStr.chars
       IN /\ recorded.result.type = "string"
          /\ IF Len(s) > limit
             THEN recorded.result.chars = SubSeq(s, 1, limit) \o TruncationMarker(Len(s))
             ELSE recorded.result.chars = s
  /\ (Canonicalized /\ limit \in {Unset, 0}) => recorded.result = recorded.resultStr
  /\ (recorded.done /\ outcome.kind = "thrown") =>
       recorded.result = StringOf(<<"{\"error\":\"">> \o outcome.message \o <<"\"}">>)

C18_Witness ==
  /\ recorded.done
  /\ limit = 2
  /\ outcome.kind = "returned"
  /\ outcome.value = Value("string", <<"h", "e", "l", "l", "o">>, << >>)
  /\ recorded.result = StringOf(<<"h", "e", "\n... (truncated, 5 total chars)">>)

\* The canonical string the claim gives a returned value, where it gives one.
ExpectedString(v) ==
  CASE v.type \in {"undefined", "null"} -> <<"O", "K">>
    [] v.type = "string" -> v.chars
    [] v.type \in {"array", "iterable", "asyncIterable"} ->
         <<"[">> \o JoinItems(v.items) \o <<"]">>
    [] OTHER -> v.chars

\* C19: the result recorded for a tool call is always a string: "OK" for
\* undefined or null, the string itself for a string, the JSON text of the
\* drained array for an iterable, the JSON text for any other returned value.
C19_AlwaysString ==
  recorded.done =>
    /\ recorded.result.type = "string"
    /\ (outcome.kind = "returned" /\ limit = Unset /\ outcome.value.type # "bigint") =>
         recorded.result.chars = ExpectedString(outcome.value)

\* The part of C19 that holds: every returned value JSON.stringify has a text
\* for is recorded as the claim says.
C19_SerializableCanonical ==
  (/\ recorded.done
   /\ outcome.kind = "returned"
   /\ limit = Unset
   /\ outcome.value.type \notin {"function", "bigint"}) =>
     recorded.result = StringOf(ExpectedString(outcome.value))

\* A response has just been parsed.
ResponseStep == http.signal = "armed" /\ http'.status = 200

ToolEvents == {"tool_call", "tool_result", "tool_error"}

\* C20: the calls dispatched for a response are its parsed calls that have an id
\* and a non-empty name, in order; parsing and filtering invoke nothing, record
\* no result and emit no event; a response none of whose calls is complete is
\* the terminal turn, written to history as an assistant turn with no calls and,
\* without a schema, resolving with its content; every invocation, tool result
\* and tool event is for the call being dispatched, a complete one; and the
\* assistant turn written after a batch carries exactly the complete calls.
C20_IncompleteDropped ==
  [][ /\ ResponseStep =>
           LET keep == SelectSeq(rawToolCalls', Complete)
           IN /\ toolCalls' = keep
              /\ invocations' = invocations
              /\ events' = events
              /\ toolResults' \in {toolResults, << >>}
              /\ keep = << >> =>
                   /\ pc' \in {"resolved", "rejected"}
                   /\ messages' =
                        Append(messages, FormatAssistantMessage(provider, content', << >>))
                   /\ ~LoopSchema => (pc' = "resolved" /\ result'.value = content')
              /\ keep # << >> => (pc' = "dispatch" /\ messages' = messages /\ error' = error)
      /\ (\/ invocations' # invocations
          \/ toolResults' \notin {toolResults, << >>}
          \/ (events' # events /\ Last(events').ev \in ToolEvents)) =>
           /\ pc = "dispatch"
           /\ toolCalls = SelectSeq(rawToolCalls, Complete)
           /\ Complete(toolCalls[idx])
           /\ invocations' # invocations => Last(invocations').name = toolCalls[idx].name
           /\ toolResults' # toolResults =>
                /\ Last(toolResults').id = toolCalls[idx].id
                /\ Last(toolResults').name = toolCalls[idx].name
      /\ (pc = "dispatch" /\ messages' # messages) =>
           messages'[Len(messages) + 1] =
             FormatAssistantMessage(provider, content, SelectSeq(rawToolCalls, Complete))
    ]_vars

\* A response carried a complete and an incomplete call; the complete one was
\* dispatched alone and the next request is in flight.
C20_Witness ==
  /\ pc = "fetch"
  /\ requestsSent = 2
  /\ Len(rawToolCalls) = 2
  /\ \E i \in 1..2 : ~Complete(rawToolCalls[i])
  /\ Len(toolCalls) = 1
  /\ Len(toolResults) = 1
  /\ Len(invocations) <= 1

\* C21: within one loop at most one request is in flight; a tool invocation
\* runs only when the response of the round is read to its end; at most one
\* invocation runs at a time, and a call has started only if every call before
\* it in the batch is settled (its iterable drained); and while a request is
\* in flight no invocation runs and, after the first round, every call of the
\* preceding batch is settled.
C21_StrictlySequential ==
  /\ inflight <= 1
  /\ Cardinality(active) <= 1
  /\ active # {} => (inflight = 0 /\ chunksLeft = 0 /\ at \in {"await", "drain"})
  /\ \A i \in active \cup settled : \A j \in 1..(i - 1) : j \in settled
  /\ at = "drain" => current \in active
  /\ inflight = 1 =>
       /\ active = {}
       /\ (at = "fetch" /\ round > 1) => settled = 1..batch

\* In the second round the second call of a batch is running, its iterable
\* half drained, and the first call is settled.
C21_Witness ==
  /\ at = "drain"
  /\ current = 2
  /\ active = {2}
  /\ settled = {1}
  /\ round = 2
  /\ itemsLeft = 1

\* The content chunk and the thinking chunk a stream event delivers.
ContentOf(p, e) ==
  IF p = "openai" THEN (IF e.has_delta THEN e.content ELSE EmptyString)
  ELSE IF e.type = "content_block_delta" /\ e.kind = "text_delta" THEN e.text
  ELSE EmptyString

ThinkingOf(p, e) ==
  IF p = "openai" THEN (IF e.has_delta THEN e.thinking ELSE EmptyString)
  ELSE IF e.type = "content_block_delta" /\ e.kind = "thinking_delta" THEN e.text
  ELSE EmptyString

NonEmpty(text) == text # EmptyString
IsContentEvent(e) == e.ev = "content"
IsThinkingEvent(e) == e.ev = "thinking"
TextsOf(evs) == [i \in 1..Len(evs) |-> evs[i].text]

\* C22: in streaming mode the content events emitted so far are the content
\* chunks that arrived so far, in arrival order (followed, once the stream has
\* ended with content, by the closing newline event), the accumulated content
\* is the concatenation of exactly those chunks in that order, and the
\* thinking chunks are emitted as thinking events only and are no part of the
\* accumulated content.
C22_ContentInArrivalOrder ==
  LET chunks == SelectSeq([i \in 1..consumed |-> ContentOf(provider, wire[i])], NonEmpty)
      thoughts == SelectSeq([i \in 1..consumed |-> ThinkingOf(provider, wire[i])], NonEmpty)
      closing == IF parsed /\ chunks # << >> THEN << <<Text("\n")>> >> ELSE << >>
  IN /\ accum.content = Flatten(chunks)
     /\ TextsOf(SelectSeq(emitted, IsContentEvent)) = chunks \o closing
     /\ TextsOf(SelectSeq(emitted, IsThinkingEvent)) = thoughts
     /\ \A i \in 1..Len(accum.content) : accum.content[i] # Text("hmm")
     /\ \A i \in 1..Len(emitted) : emitted[i].ev \in {"content", "thinking"}

\* A stream of a thinking chunk between two content chunks has been read to
\* its end.
C22_Witness ==
  /\ parsed
  /\ Len(wire) = 3
  /\ ContentOf(provider, wire[1]) = <<Text("Hello")>>
  /\ ThinkingOf(provider, wire[2]) = Thought
  /\ ContentOf(provider, wire[3]) = <<Text(" World")>>
  /\ accum.content = <<Text("Hello"), Text(" World")>>
  /\ Len(emitted) = 4

\* The tool-call deltas that arrived so far for index i, in arrival order.
DeltasFor(i) ==
  LET all == Flatten([j \in 1..consumed |-> wire[j].tool_calls])
      ForIndex(d) == d.index = i
  IN SelectSeq(all, ForIndex)

RECURSIVE LastGiven(_, _)
LastGiven(deltas, field) ==
  IF deltas = << >> THEN ""
  ELSE IF deltas[Len(deltas)][field] # "" THEN deltas[Len(deltas)][field]
  ELSE LastGiven(SubSeq(deltas, 1, Len(deltas) - 1), field)

\* C23: in the OpenAI streaming path the accumulated tool calls are exactly
\* one per index that a delta arrived for, each with the id and the name
\* delivered for its index and with the concatenation, in arrival order, of the
\* argument fragments delivered for its index, however the indices interleave.
C23_AccretedByIndex ==
  provider = "openai" =>
    \A i \in {0, 1} :
      LET deltas == DeltasFor(i)
      IN IF deltas = << >>
         THEN (i + 1) \notin DOMAIN accum.toolCalls
         ELSE /\ (i + 1) \in DOMAIN accum.toolCalls
              /\ accum.toolCalls[i + 1] =
                   [id |-> LastGiven(deltas, "id"),
                    name |-> LastGiven(deltas, "name"),
                    arguments |-> Flatten([j \in 1..Len(deltas) |-> deltas[j].arguments])]

\* The deltas of two indices interleaved: index 0 opened, index 1 opened, then
\* a further fragment for index 0.
C23_Witness ==
  /\ provider = "openai"
  /\ parsed
  /\ Len(wire) = 3
  /\ wire[1].tool_calls = << ToolDelta(0, "call_1", "add", FragmentX) >>
  /\ wire[2].tool_calls = << ToolDelta(1, "call_2", "sub", FragmentX) >>
  /\ wire[3].tool_calls = << ToolDelta(0, "", "", FragmentY) >>
  /\ accum.toolCalls[1] = [id |-> "call_1", name |-> "add", arguments |-> FragmentX \o FragmentY]
  /\ accum.toolCalls[2] = [id |-> "call_2", name |-> "sub", arguments |-> FragmentX]

NotSystem(m) == m.role # "system"
\* The conversation a request carries, the provider's system entry aside.
Conversation(req) == SelectSeq(req.messages, NotSystem)

\* C24: the history is append-only across continuations: the messages of the
\* first request of a next execution are the messages the previous execution
\* returned, in order, followed by the one new user message; within a loop the
\* messages only grow at the end, and what the loop returns is what its last
\* request carried plus the turns appended since.
C24_HistoryAppendOnly ==
  [][ /\ link' # link =>
           /\ convo' = priorMessages
                         \o << [role |-> "user",
                                content |-> <<Text("Turn " \o ToString(link'))>>] >>
           /\ Conversation(request') = convo'
           /\ link > 0 => priorMessages = convo
      /\ link' = link =>
           /\ Len(convo') >= Len(convo)
           /\ SubSeq(convo', 1, Len(convo)) = convo
           /\ request' # request => Conversation(request') = convo'
      /\ (phase = "request" /\ phase' = "returned") => priorMessages' = convo'
    ]_vars

\* The third execution of a chain has sent its first request, after an
\* execution that went through a tool round.
C24_Witness ==
  /\ link = 3
  /\ phase = "request"
  /\ requestNo = 1
  /\ Len(priorMessages) > 4
  /\ Len(Conversation(request)) = Len(priorMessages) + 1
  /\ \E i \in 1..Len(priorMessages) : priorMessages[i].role # "user" /\ priorMessages[i].role # "assistant"

\* C29: for the Anthropic provider every request built while the return store
\* of the execution (return_value) is among the tools forces the tool choice
\* onto it, and a request with no tool of that name forces no tool choice.
C29_ForcedToolChoice ==
  (provider = "anthropic" /\ phase = "request") =>
    /\ (\E i \in 1..Len(loopTools) : loopTools[i] = ReturnStore(link))
         => request.tool_choice = "return_value"
    /\ (\A i \in 1..Len(request.tools) : request.tools[i] # "return_value")
         => request.tool_choice = ""

\* The half of C29 that holds: a request without a return_value tool forces
\* no tool choice.
C29_NoStoreNoChoice ==
  (provider = "anthropic" /\ \A i \in 1..Len(request.tools) : request.tools[i] # "return_value")
    => request.tool_choice = ""

ByPrecedence(perCall, instance, k) ==
  IF perCall[k] # "undefined" THEN perCall[k]
  ELSE IF instance[k] # "undefined" THEN instance[k]
  ELSE IF k = "modelName" THEN "" ELSE IF k = "silent" THEN "false" ELSE "undefined"

Looping(i) == instances[i].phase = "loop"

\* C25: for every key and every consumer of the configuration during an
\* execution, the value in effect is the per-call value if the per-call config
\* defines it, otherwise the instance value, otherwise the default: the requests
\* and the iteration cap of the loop, and the silent switch the default output
\* handlers read (for which the instance value may be the one at the start of
\* the execution or the current one).
C25_PrecedenceForEveryConsumer ==
  \A i \in Instances :
    Looping(i) =>
      /\ instances[i].used # NoValues =>
           \A k \in {"modelName", "maxIterations"} :
             instances[i].used[k] = ByPrecedence(instances[i].perCall, instances[i].atStart, k)
      /\ instances[i].shown # "none" =>
           instances[i].shown \in
             { ByPrecedence(instances[i].perCall, instances[i].atStart, "silent"),
               ByPrecedence(instances[i].perCall, instances[i].config, "silent") }

\* C26: a setConfig call with an invalid value throws and leaves the instance
\* config exactly as it was, no key of the rejected object applied; a call that
\* does not throw has applied every key of its object.
C26_ValidatesBeforeApplying ==
  [][\A i \in Instances :
       /\ instances'[i].attempt["maxIterations"] = "0" => instances'[i].threw
       /\ instances'[i].threw => instances'[i].config = instances[i].config
       /\ ~instances'[i].threw =>
            \A k \in Keys : instances'[i].attempt[k] # "undefined" =>
                              instances'[i].config[k] = instances'[i].attempt[k]]_vars

\* A rejected object that also carried a valid model name, and a later request
\* built without that model name.
C26_Witness ==
  \E i \in Instances :
    /\ instances[i].threw
    /\ instances[i].attempt["modelName"] = "m2"
    /\ instances[i].config["modelName"] # "m2"
    /\ Looping(i)
    /\ instances[i].perCall = EmptyConfig
    /\ instances[i].used # NoValues
    /\ instances[i].used["modelName"] # "m2"

\* C27: no operation on one instance changes the tool set or the requests of
\* the other: the anonymous functions an instance wraps are named as they
\* would be if the other instance did not exist, tool_1, tool_2, ... in the
\* order it wrapped them.
C27_InstancesShareNoState ==
  \A i \in Instances :
    \A n \in 1..Len(instances[i].tools) : instances[i].tools[n] = "tool_" \o ToString(n)

\* The part of C27 that holds: a step that changes one instance's record
\* leaves the config, the handlers' switch and the requests of the other alone.
C27_ConfigIsolated ==
  [][\A i, j \in Instances :
       (i # j /\ instances'[i] # instances[i]) => instances'[j] = instances[j]]_vars

\* C28: the configuration of a loop is resolved once before the loop starts:
\* every request of the loop is built from the precedence applied to the
\* per-call config and the instance config as it was at the start, whatever
\* setConfig did since, and the loop never sends more requests than the cap
\* resolved at the start.
C28_ResolvedOnce ==
  \A i \in Instances :
    (Looping(i) /\ instances[i].used # NoValues) =>
      /\ \A k \in {"modelName", "maxIterations"} :
           instances[i].used[k] = ByPrecedence(instances[i].perCall, instances[i].atStart, k)
      /\ ByPrecedence(instances[i].perCall, instances[i].atStart, "maxIterations") = "1"
           => instances[i].sent <= 1

\* A request built after setConfig changed the instance's model name during
\* the loop, and built with the model name resolved at the start.
C28_Witness ==
  \E i \in Instances :
    /\ Looping(i)
    /\ instances[i].sent = 2
    /\ instances[i].atStart["modelName"] = "m1"
    /\ instances[i].liveAtSend["modelName"] = "m2"
    /\ instances[i].used["modelName"] = "m1"

\* ---------------------------------------------------------------------------
\* The events a step appended.
NewEvents == SubSeq(events', Len(events) + 1, Len(events'))

\* C31: for a call to a registered tool whose arguments parse, exactly one
\* tool_call event is emitted and after it exactly one of tool_result or
\* tool_error; for a call whose arguments do not parse, exactly one tool_error
\* and no tool_call; every event carries the name of the call being dispatched,
\* so the events of call i precede those of call i+1.
C31_EventsPerCall ==
  [][(pc = "dispatch" /\ FindTool(tools, toolCalls[idx].name) # 0) =>
       LET tc == toolCalls[idx]
       IN /\ \A n \in 1..Len(NewEvents) : NewEvents[n].name = tc.name
          /\ IF JSONParse(tc.arguments).ok
             THEN /\ Len(NewEvents) = 2
                  /\ NewEvents[1].ev = "tool_call"
                  /\ NewEvents[2].ev \in {"tool_result", "tool_error"}
             ELSE /\ Len(NewEvents) = 1
                  /\ NewEvents[1].ev = "tool_error"]_vars

\* ---------------------------------------------------------------------------
IsString(val) == val.type = "string"

Field(key) == Get(data.members, key)

\* The result the claim describes: the declared keys that are present, only.
DeclaredOnly ==
  MemberOrNone("value", Field("value")) \o MemberOrNone("note", Field("note"))

IsReset(e) == e.kind = "event" /\ e.what \in {"start", "tool_call"}

\* The position of the reset that opened the segment position j lies in, 0
\* before the first reset.
SegmentOf(j) ==
  LET resets == {i \in 1..j : IsReset(stdout[i])}
  IN IF resets = {} THEN 0 ELSE CHOOSE i \in resets : \A k \in resets : k <= i

LabelAt(j) == stdout[j] = [kind |-> "write", what |-> "[Response]"]
ChunkAt(j) == stdout[j] = [kind |-> "write", what |-> "content"]
ContentEventAt(j) == stdout[j] = [kind |-> "event", what |-> "content"]

\* C33: in every segment between two consecutive resets (start or tool_call)
\* the [Response] label is written at most once and before every content
\* chunk written in that segment; it is written only by the first content
\* event of the segment, silenced or not, so hasContent is TRUE exactly when
\* the segment has had a content event, and a content event that follows a
\* silenced one in the same segment writes no label.
C33_LabelOncePerSegment ==
  /\ \A i, j \in 1..Len(stdout) :
       (i < j /\ LabelAt(j)) =>
         /\ LabelAt(i) => SegmentOf(i) # SegmentOf(j)
         /\ ChunkAt(i) => SegmentOf(i) # SegmentOf(j)
         /\ ContentEventAt(i) => (SegmentOf(i) # SegmentOf(j) \/ i = j - 1)
  /\ labels.hasContent <=>
       \E i \in 1..Len(stdout) : ContentEventAt(i) /\ SegmentOf(i) = SegmentOf(Len(stdout))

\* A content event arrived while silent, silent was switched off, and the next
\* content event of the same segment wrote its chunk without a label.
C33_Witness ==
  /\ ~switches.silent
  /\ stdout = << [kind |-> "event", what |-> "start"],
                 [kind |-> "event", what |-> "content"],
                 [kind |-> "event", what |-> "content"],
                 [kind |-> "write", what |-> "content"] >>

\* ---------------------------------------------------------------------------
\* The execution now in its loop uses the return sentinel.
UsesReturn == \E i \in 1..Len(handed) : handed[i] = ReturnStore(executions)

\* C34: in every execution that uses the return sentinel, a continuation
\* after an execution that used it too included, a model call to return_value
\* invokes the store created for that execution, the one whose slot the loop
\* polls.
C34_OwnStoreWritten ==
  (stage = "loop" /\ UsesReturn /\ called.name = "return_value") =>
    called = ReturnStore(executions)

\* ---------------------------------------------------------------------------
\* The step in which the loop takes the early exit.
EarlyExitStep == pc # "resolved" /\ pc' = "resolved" /\ result'.source = "store"

\* C35: the early exit is taken only by the step that dispatches the last
\* call of the batch: by then every complete call of the round-trip has a
\* result, in the order of the calls, and that step appends the assistant turn
\* with all the calls and then all the tool results to the history, the calls
\* that follow the store call in the turn included.
C35_PolledAfterBatch ==
  [][EarlyExitStep =>
       /\ pc = "dispatch"
       /\ idx = Len(toolCalls)
       /\ Len(toolResults') = Len(toolCalls)
       /\ \A n \in 1..Len(toolCalls) : toolResults'[n].id = toolCalls[n].id
       /\ Len(messages') = Len(messages) + 1 + Len(FormatToolResults(provider, toolResults'))
       /\ messages'[Len(messages) + 1] = FormatAssistantMessage(provider, content, toolCalls)
       /\ SubSeq(messages', Len(messages) + 2, Len(messages'))
            = FormatToolResults(provider, toolResults')]_vars

\* The early exit taken after a batch whose first call filled the store and
\* whose second call was dispatched after it.
C35_Witness ==
  /\ pc = "resolved"
  /\ result.source = "store"
  /\ Len(toolCalls) = 2
  /\ toolCalls[1].name = ReturnStoreName
  /\ toolCalls[2].name # ReturnStoreName
  /\ Len(toolResults) = 2
  /\ ~IsErrorResult(toolResults[1].result)

\* ---------------------------------------------------------------------------
\* C36: a loop whose return store has been filled ends by resolving with the
\* stored value, also when the store was filled in the round-trip that reaches
\* the cap, and never with the iteration-exhaustion error; a loop with no cap
\* ends only on a response without complete tool calls, on a filled store, or
\* on an error other than iteration exhaustion.
C36_EarlyExitBeatsCap ==
  /\ (ReturnStoreActive /\ slot.filled /\ Finished) =>
       /\ pc = "resolved"
       /\ result = [source |-> "store", value |-> StoreGet(slot)]
  /\ (maxIterations = Unlimited /\ Finished) =>
       \/ pc = "resolved" /\ result.source = "store" /\ slot.filled
       \/ pc = "resolved" /\ result.source \in {"content", "schema"} /\ toolCalls = << >>
       \/ pc = "rejected" /\ error # MaxIterationsMessage

\* ---------------------------------------------------------------------------
\* C37: no loop runs with a configuration value that validateConfig rejects,
\* whichever layer supplied it: the iteration cap a running loop was handed is
\* absent or a positive integer.
C37_NoRejectedValueRuns ==
  \A i \in Instances :
    Looping(i) => instances[i].resolved["maxIterations"] \in {"undefined", "1", "2"}

\* ---------------------------------------------------------------------------
\* C38: running a loop never mutates the history it was given: the array held
\* by next stays what the previous execution returned, and every execution
\* started from that next, one after another or interleaved, has that history
\* followed by its own user message and then only messages of its own.
C38_HistoryNotMutated ==
  /\ arrays[0] = << [role |-> "user", run |-> 0], [role |-> "assistant", run |-> 0] >>
  /\ \A r \in 1..MaxRuns :
       runs[r].phase # "idle" =>
         LET msgs == arrays[runs[r].messages]
         IN /\ Len(msgs) >= 3
            /\ SubSeq(msgs, 1, 2) = << [role |-> "user", run |-> 0],
                                       [role |-> "assistant", run |-> 0] >>
            /\ msgs[3] = [role |-> "user", run |-> r]
            /\ \A n \in 3..Len(msgs) : msgs[n].run = r

\* The same next was executed twice with the loops interleaved, and a third
\* time after the first had returned.
C38_Witness ==
  /\ runs[1].phase = "returned"
  /\ runs[1].turns = 1
  /\ runs[2].phase = "loop"
  /\ runs[2].turns = 2
  /\ runs[3].phase = "loop"
  /\ Len(arrays[1]) = 6

\* ---------------------------------------------------------------------------
\* C39: however the body is cut into chunks, the decoder yields the same
\* frames: at every moment what it has yielded is the beginning of the frames
\* of the body's complete data lines before the sentinel, each once and in
\* order, and when it ends it has yielded all of them and nothing that follows
\* the sentinel.
C39_ChunkingIndependent ==
  sse.source # 0 =>
    LET frames == SSEBodies[sse.source].frames
    IN /\ Len(sse.yielded) <= Len(frames)
       /\ sse.yielded = SubSeq(frames, 1, Len(sse.yielded))
       /\ sse.finished => sse.yielded = frames

\* The first body was read in several chunks, one of them ending inside a
\* line, up to the sentinel.
C39_Witness ==
  /\ sse.source = 1
  /\ sse.finished
  /\ sse.cutInLine
  /\ sse.reads = 2
  /\ sse.rest # << >>
  /\ sse.yielded = << <<"1">>, <<"2", "3">> >>

\* ---------------------------------------------------------------------------
\* C40: the object with done = true ends the response: however the body is cut
\* into chunks, the content, the tool calls and the content events of the
\* parsed response are those of the objects up to and including that object,
\* and no later object adds to them.
C40_DoneEndsResponse ==
  (ndjson.source # 0 /\ ndjson.finished) =>
    LET body == NDJSONBodies[ndjson.source]
    IN /\ ndjson.content = body.content
       /\ Len(ndjson.toolCalls) = body.calls
       /\ ndjson.emitted = Append(body.content, NL)

====
